---- MODULE Spec2Model ----
(***************************************************************************)
(* Natural-language-to-SQL agent of ohderek/ohderek: the SQL validator of  *)
(* rag-analytics-agent (src/sql_validator.py) and of the crypto agent      *)
(* (agent/crypto_agent.py), and the two orchestrators built on them, the   *)
(* FastAPI handler `query` (api/main.py) and the CLI `ask`/`main`.         *)
(*                                                                         *)
(* SQL text is a sequence of one-character strings, so that strip, split,  *)
(* upper, the substring test and the \b regex are computed character by    *)
(* character as Python computes them.                                      *)
(***************************************************************************)
EXTENDS Integers, Sequences, FiniteSets, TLC

VARIABLES
    \* ---- validator harness (SpecV) ----
    v_sql,        \* the raw SQL text handed to validate_sql
    v_max_rows,   \* the max_rows argument
    v_impl,       \* "none" | "api" | "cli": which validate_sql was applied
    v_out,        \* outcome of validate_sql(v_sql)
    v_out2,       \* outcome of validate_sql(validate_sql(v_sql))
    v_out3,       \* outcome of a second call with the arguments of the first
    v_same_run,   \* the second call was made in the process of the first
    \* ---- orchestrators (Spec) ----
    variant,      \* "api": api/main.py;  "cli": crypto_agent.py main with a
                  \* question argument;  "cli_loop": main --interactive
    schema_collection, \* api: _schema_collection is not None
    pc,           \* position of the handler in its code
    served,       \* number of questions accepted so far
    tables_used,  \* number of table names retrieval returned
    raw_sql,      \* generate_sql's return value
    safe_sql,     \* validate_sql's return value
    results,      \* number of rows execute_query returned
    answer,       \* format_answer's return value
    log,          \* the QueryLog object of the question (api)
    exc,          \* the exception in flight, or NoExc
    calls,        \* the pipeline calls made for the current question
    logWrites,    \* write_log invocations for the current question
    sink,         \* rows of agent_query_log
    warnings,     \* "failed to write log entry" warnings printed
    response,     \* what the caller of the handler received
    use_mock_db,  \* api: USE_MOCK_DB;  cli: demo_mode (--demo)
    schema_response, \* what the last caller of GET /schema received
    llm_calls,    \* chat-completion calls made for the current question
    open_conns,   \* database connections opened and not closed
    \* ---- the API service under concurrent requests (SpecC) ----
    c_pc,         \* request -> position of its `query` coroutine
    c_loop,       \* the request whose coroutine the event loop is running, or 0
    c_hung,       \* the request whose network call does not return, or 0
    c_status,     \* request -> status of its response
    \* ---- the schema indexer (SpecI) ----
    i_impl,       \* "api": schema_indexer.py;  "cli": crypto_agent.py
    i_doc,        \* the schema document on disk, or MissingFile
    i_coll,       \* the persisted collection: its chunks, or NoCollection
    i_chunks,     \* what the last _load_schema call returned
    i_embed_calls, \* embedding requests of the last build_index call
    i_doc_reads,  \* reads of the schema document by the last build_index call
    i_result,     \* how the last build_index call ended
    i_edited,     \* the schema document was edited since the process started
    i_retrieval,  \* how the last retrieval call ended
    \* ---- one process and the questions it serves, one after another (SpecS) ----
    s_front,      \* "api": api/main.py;  "cli_loop": main --interactive;
                  \* "streamlit": streamlit_app.py
    s_demo_mode,  \* USE_MOCK_DB;  args.demo;  the "Demo mode" toggle
    s_messages,   \* st.session_state["messages"]
    s_runs,       \* per question served: the dialect and backend flags used
    s_ask,        \* how the pipeline call of the last question ended
    s_before,     \* length of the chat history when the last question came
    \* ---- BaseExtractor (SpecE) ----
    x_config,     \* the ExtractorConfig of the extractor
    x_watermark,  \* self._watermark
    x_run,        \* the last call of extract: its arguments and how it ended
                  \* (of the records fetched: their number and the last one)
    \* ---- DataTransformer (SpecT) ----
    t_df,         \* the frame handed to transform
    t_out         \* what transform returned

vvars == <<v_sql, v_max_rows, v_impl, v_out, v_out2, v_out3, v_same_run>>
cvars == <<c_pc, c_loop, c_hung, c_status>>
ivars == <<i_impl, i_doc, i_coll, i_chunks, i_embed_calls, i_doc_reads, i_result, i_edited,
           i_retrieval>>
svars == <<s_front, s_demo_mode, s_messages, s_runs, s_ask, s_before>>
xvars == <<x_config, x_watermark, x_run>>
tvars == <<t_df, t_out>>
\* written by no step of `query` and `ask`
evars == <<cvars, ivars, svars, xvars, tvars>>
fvars == <<use_mock_db, schema_response, evars>>
ovars == <<variant, schema_collection, pc, served, tables_used, raw_sql, safe_sql, results, answer, log, exc,
           calls, logWrites, sink, warnings, response, llm_calls, open_conns, fvars>>
vars  == <<vvars, ovars>>
\* the orchestrators' own variables
qvars == <<variant, schema_collection, pc, served, tables_used, raw_sql, safe_sql, results, answer,
           log, exc, calls, logWrites, sink, warnings, response, llm_calls, open_conns,
           use_mock_db, schema_response>>

\* ------------------------------------------------------------------------
\* Bounds and program constants
\* ------------------------------------------------------------------------
MaxBody == 2          \* fragments after the leading keyword of an input
MaxQuestions == 1     \* questions one process serves
MaxInFlight == 2      \* requests the API service has in flight

DefaultMaxRows == 500 \* validate_sql(sql, max_rows=500)
CliMaxRows == 200     \* MAX_ROWS of the crypto agent
ApiMaxRows == 500     \* MAX_ROWS of src/config.py

\* ------------------------------------------------------------------------
\* Characters and Python's str operations
\* ------------------------------------------------------------------------
LowerChars == <<"a", "b", "c", "d", "e", "f", "g", "h", "i", "j", "k", "l", "m",
                "n", "o", "p", "q", "r", "s", "t", "u", "v", "w", "x", "y", "z">>
UpperChars == <<"A", "B", "C", "D", "E", "F", "G", "H", "I", "J", "K", "L", "M",
                "N", "O", "P", "Q", "R", "S", "T", "U", "V", "W", "X", "Y", "Z">>
DigitChars == <<"0", "1", "2", "3", "4", "5", "6", "7", "8", "9">>

Range(s) == {s[i] : i \in DOMAIN s}

\* str.isspace for the characters of the model
IsSpace(c) == c \in {" ", "\n", "\t"}

\* \w of Python's re on str: letters, digits and the underscore
WordChars == Range(LowerChars) \cup Range(UpperChars) \cup Range(DigitChars) \cup {"_"}

IsWordChar(c) == c \in WordChars

UpperOf == [c \in Range(LowerChars) |->
                UpperChars[CHOOSE i \in DOMAIN LowerChars : LowerChars[i] = c]]

UpperChar(c) == IF c \in DOMAIN UpperOf THEN UpperOf[c] ELSE c

\* str.upper()
Upper(s) == [i \in DOMAIN s |-> UpperChar(s[i])]

\* str.lstrip() / str.rstrip() / str.strip() with no argument
RECURSIVE LStrip(_)
LStrip(s) == IF s # <<>> /\ IsSpace(Head(s)) THEN LStrip(Tail(s)) ELSE s

RECURSIVE RStrip(_)
RStrip(s) ==
    IF s # <<>> /\ IsSpace(s[Len(s)]) THEN RStrip(SubSeq(s, 1, Len(s) - 1)) ELSE s

Strip(s) == RStrip(LStrip(s))

\* str.rstrip(";")
RECURSIVE RStripSemi(_)
RStripSemi(s) ==
    IF s # <<>> /\ s[Len(s)] = ";" THEN RStripSemi(SubSeq(s, 1, Len(s) - 1)) ELSE s

\* str.split() with no argument: the maximal runs of non-space characters
RECURSIVE SplitFrom(_, _, _)
SplitFrom(s, i, cur) ==
    IF i > Len(s)
    THEN IF cur = <<>> THEN <<>> ELSE <<cur>>
    ELSE IF IsSpace(s[i])
         THEN IF cur = <<>> THEN SplitFrom(s, i + 1, <<>>)
                            ELSE <<cur>> \o SplitFrom(s, i + 1, <<>>)
         ELSE SplitFrom(s, i + 1, Append(cur, s[i]))

Split(s) == SplitFrom(s, 1, <<>>)

\* " ".join(parts)
RECURSIVE JoinSpace(_)
JoinSpace(parts) ==
    IF parts = <<>> THEN <<>>
    ELSE IF Len(parts) = 1 THEN parts[1]
    ELSE parts[1] \o <<" ">> \o JoinSpace(Tail(parts))

\* `sub in s`
Contains(s, sub) ==
    \E i \in 1..(Len(s) - Len(sub) + 1) : SubSeq(s, i, i + Len(sub) - 1) = sub

\* \b at the gap after position p of s (p = 0: before the first character)
WordBoundary(s, p) ==
    LET before == p >= 1 /\ p <= Len(s) /\ IsWordChar(s[p])
        after  == p + 1 >= 1 /\ p + 1 <= Len(s) /\ IsWordChar(s[p + 1])
    IN  before # after

\* Mutant: the keyword is searched as a plain substring, without the \b
ReSearchSubstring(kw, s) == Contains(s, kw)

\* re.search(rf"\b{re.escape(kw)}\b", s)
ReSearchWord(kw, s) ==
    \E i \in 1..(Len(s) - Len(kw) + 1) :
        /\ SubSeq(s, i, i + Len(kw) - 1) = kw
        /\ WordBoundary(s, i - 1)
        /\ WordBoundary(s, i + Len(kw) - 1)

\* str(n) / f"{n}" of a non-negative int
RECURSIVE Str(_)
Str(n) == IF n < 10 THEN <<DigitChars[n + 1]>>
          ELSE Str(n \div 10) \o <<DigitChars[(n % 10) + 1]>>

\* ------------------------------------------------------------------------
\* sql_validator.py (api) and crypto_agent.py validate_sql (cli)
\* ------------------------------------------------------------------------
SELECT == <<"S", "E", "L", "E", "C", "T">>
KW_WITH == <<"W", "I", "T", "H">>
LIMIT == <<"L", "I", "M", "I", "T">>
CANNOT_ANSWER == <<"C", "A", "N", "N", "O", "T", "_", "A", "N", "S", "W", "E", "R">>
SYSTEM_DOLLAR == <<"S", "Y", "S", "T", "E", "M", "$">>
COPY_INTO == <<"C", "O", "P", "Y", " ", "I", "N", "T", "O">>

\* BLOCKED of crypto_agent.py
BLOCKED ==
    { <<"D", "R", "O", "P">>, <<"D", "E", "L", "E", "T", "E">>,
      <<"T", "R", "U", "N", "C", "A", "T", "E">>, <<"U", "P", "D", "A", "T", "E">>,
      <<"I", "N", "S", "E", "R", "T">>, <<"M", "E", "R", "G", "E">>,
      <<"A", "L", "T", "E", "R">>, <<"C", "R", "E", "A", "T", "E">>,
      <<"G", "R", "A", "N", "T">>, <<"R", "E", "V", "O", "K", "E">>,
      <<"E", "X", "E", "C", "U", "T", "E">>, <<"E", "X", "E", "C">>,
      <<"C", "A", "L", "L">> }

\* BLOCKED_KEYWORDS of sql_validator.py
BLOCKED_KEYWORDS ==
    BLOCKED \cup { <<"P", "U", "T">>, <<"G", "E", "T">>,
                   <<"R", "E", "M", "O", "V", "E">>, COPY_INTO, SYSTEM_DOLLAR }

\* A validation outcome: kind "ok" with the returned string as text, or the
\* raised error: its kind picks the message, text is what the message quotes.
Outcome(kind, text) == [kind |-> kind, text |-> text]

\* Mutant: the sentinel is compared without trimming the text
IsSentinelUntrimmed(sql) == Upper(sql) = CANNOT_ANSWER

\* sql.strip().upper() == "CANNOT_ANSWER"
IsSentinel(sql) == Upper(Strip(sql)) = CANNOT_ANSWER

\* normalised = " ".join(sql.split())
Normalise(sql) == JoinSpace(Split(sql))

\* Mutant: the first keyword is compared without case-folding
FirstKeywordNoFold(normalised) == Split(LStrip(normalised))[1]

\* Mutant: the whole text is taken, not its first token
FirstKeywordWhole(normalised) == Upper(normalised)

\* first_keyword = normalised.lstrip().split()[0].upper()
FirstKeyword(normalised) == Upper(Split(LStrip(normalised))[1])

\* The keywords the blocklist loop can stop at. The loop iterates a Python
\* set of str, whose order changes with the process's hash seed, so the
\* keyword named is any of those that match.
BlockedHits(keywords, normalised) ==
    LET folded == Upper(normalised)
    IN  {kw \in keywords : ReSearchWord(kw, folded)}

\* sql_validator.py: normalised.rstrip(";").rstrip() + f" LIMIT {max_rows}"
InjectLimit(normalised, max_rows) ==
    IF ~Contains(Upper(normalised), LIMIT)
    THEN RStrip(RStripSemi(normalised)) \o <<" ">> \o LIMIT \o <<" ">> \o Str(max_rows)
    ELSE normalised

\* crypto_agent.py: f"{normalised.rstrip(';')} LIMIT {MAX_ROWS}"
CliInjectLimit(normalised, max_rows) ==
    IF ~Contains(Upper(normalised), LIMIT)
    THEN RStripSemi(normalised) \o <<" ">> \o LIMIT \o <<" ">> \o Str(max_rows)
    ELSE normalised

\* validate_sql of sql_validator.py: the set of outcomes a call can have
ValidateSql(sql, max_rows) ==
    IF sql = <<>> \/ Strip(sql) = <<>>
    THEN {Outcome("empty", <<>>)}
    ELSE IF IsSentinel(sql)
    THEN {Outcome("sentinel", <<>>)}
    ELSE LET normalised == Normalise(sql)
             first_keyword == FirstKeyword(normalised)
         IN  IF first_keyword \notin {SELECT, KW_WITH}
             THEN {Outcome("allowlist", first_keyword)}
             ELSE LET hits == BlockedHits(BLOCKED_KEYWORDS, normalised)
                  IN  IF hits # {}
                      THEN {Outcome("blocked", kw) : kw \in hits}
                      ELSE {Outcome("ok", InjectLimit(normalised, max_rows))}

\* validate_sql of crypto_agent.py
CliValidateSql(sql) ==
    IF sql = <<>> \/ Strip(sql) = <<>>
    THEN {Outcome("empty", <<>>)}
    ELSE IF IsSentinel(sql)
    THEN {Outcome("sentinel", <<>>)}
    ELSE LET normalised == Normalise(sql)
             first == FirstKeyword(normalised)
         IN  IF first \notin {SELECT, KW_WITH}
             THEN {Outcome("allowlist", first)}
             ELSE LET hits == BlockedHits(BLOCKED, normalised)
                  IN  IF hits # {}
                      THEN {Outcome("blocked", kw) : kw \in hits}
                      ELSE {Outcome("ok", CliInjectLimit(normalised, CliMaxRows))}

\* ------------------------------------------------------------------------
\* The SQL texts the language model can return: a leading word, then up to
\* MaxBody fragments
\* ------------------------------------------------------------------------
\* first word of a model output, with or without leading whitespace
Heads ==
    { <<>>,
      <<"S", "E", "L", "E", "C", "T">>,
      <<" ", "\n", "s", "e", "l", "e", "c", "t">>,
      <<"W", "I", "T", "H">>,
      <<"D", "R", "O", "P", " ", "T", "A", "B", "L", "E", " ", "x">>,
      <<"C", "A", "N", "N", "O", "T", "_", "A", "N", "S", "W", "E", "R">>,
      <<" ", "\n", "c", "a", "n", "n", "o", "t", "_", "A", "n", "s", "w", "e", "r">> }

\* what follows: identifiers, keywords, separators
BodyFragments ==
    { <<" ", "x">>,
      <<" ", "d", "e", "l", "e", "t", "e">>,
      <<" ", "c", "r", "e", "a", "t", "e", "d", "_", "a", "t">>,
      <<" ", "C", "R", "E", "A", "T", "E">>,
      <<" ", "L", "I", "M", "I", "T", " ", "5">>,
      <<" ", "l", "i", "m", "i", "t", "s">>,
      <<" ", "S", "Y", "S", "T", "E", "M", "$">>,
      <<" ", "s", "y", "s", "t", "e", "m", "$", "w", "a", "i", "t">>,
      <<" ", "c", "o", "p", "y", "\n", " ", "i", "n", "t", "o">>,
      <<";">>,
      <<"\n">> }

RECURSIVE Bodies(_)
Bodies(n) ==
    IF n = 0 THEN {<<>>}
    ELSE Bodies(n - 1) \cup {b \o f : b \in Bodies(n - 1), f \in BodyFragments}

SqlTexts == {h \o b : h \in Heads, b \in Bodies(MaxBody)}

MaxRowsArgs == {DefaultMaxRows, 7}

\* ------------------------------------------------------------------------
\* SpecV: validate_sql applied to every text of SqlTexts, and to its own result
\* ------------------------------------------------------------------------
NoOutcome == Outcome("none", <<>>)
NoExc == [class |-> "none", kind |-> "none", text |-> <<>>, cause |-> "none"]
NoResponse == [status |-> "none", detail |-> NoExc, sql |-> <<>>, answer |-> "none",
               row_count |-> 0, tables |-> 0]
EmptyLog == [generated_sql |-> <<>>, answer |-> "", row_count |-> 0,
             schema_tables_used |-> 0, error |-> NoExc]

\* Requests in flight in the API service
Requests == 1..MaxInFlight

\* No request was sent to the service
ConcurrencyIdle ==
    /\ c_pc = [q \in Requests |-> "off"]
    /\ c_loop = 0
    /\ c_hung = 0
    /\ c_status = [q \in Requests |-> "none"]

\* The schema file does not exist
MissingFile == [exists |-> FALSE, tables |-> <<>>]
\* The client lists no collection of the configured name
NoCollection == [exists |-> FALSE, chunks |-> <<>>]
\* _load_schema was not called, or raised
NoChunks == [loaded |-> FALSE, docs |-> <<>>]
NoResult == [path |-> "none", raised |-> FALSE, force |-> FALSE, found |-> NoCollection,
             doc |-> MissingFile]
\* No retrieval call was made
NoRetrieval == [n |-> 0, count |-> 0, requested |-> 0, raised |-> FALSE, cause |-> "none", docs |-> <<>>,
                context |-> <<>>, tables |-> <<>>]

\* build_index was not called
IndexerIdle ==
    /\ i_impl = "none"
    /\ i_doc = MissingFile
    /\ i_coll = NoCollection
    /\ i_chunks = NoChunks
    /\ i_embed_calls = 0
    /\ i_doc_reads = 0
    /\ i_result = NoResult
    /\ i_edited = FALSE
    /\ i_retrieval = NoRetrieval

\* The dict `ask` returns, before any call returned one
NoDict == [question |-> "none", sql |-> <<>>, answer |-> "none", row_count |-> 0,
           latency_ms |-> "none", tables_used |-> 0]
\* No question was put to the pipeline
NoAsk == [asked |-> FALSE, raised |-> FALSE, exc |-> NoExc, result |-> NoDict,
          dialect |-> "none", backend |-> "none"]

\* No process is serving questions
ChatIdle ==
    /\ s_front = "none"
    /\ s_demo_mode = TRUE
    /\ s_messages = <<>>
    /\ s_runs = <<>>
    /\ s_ask = NoAsk
    /\ s_before = 0

\* Python's None among the watermark values
None == -1
\* ExtractorConfig defaults
DefaultMaxRetries == 3
NoConfig == [incremental |-> TRUE, batch_size |-> 0, max_retries |-> DefaultMaxRetries]
\* extract was not called
NoRun == [called |-> FALSE, before |-> None, since |-> None, connect_failed |-> FALSE,
          fetch_failed |-> FALSE, last |-> [has_col |-> FALSE, value |-> None],
          errors |-> 0, watermark_value |-> None,
          row_count |-> 0, disconnects |-> 0, raised |-> FALSE]

\* No extractor was constructed
ExtractorIdle ==
    /\ x_config = NoConfig
    /\ x_watermark = None
    /\ x_run = NoRun

\* pd.DataFrame(): no rows and no columns
EmptyFrame == [index |-> <<>>, columns |-> <<>>, data |-> <<>>]
\* transform was not called
NoTransform == [done |-> FALSE, frame |-> EmptyFrame, null_errors |-> 0]

\* No transformer was constructed
TransformerIdle ==
    /\ t_df = EmptyFrame
    /\ t_out = NoTransform

\* No validate_sql harness
ValidatorIdle ==
    /\ v_sql = <<>>
    /\ v_max_rows = DefaultMaxRows
    /\ v_impl = "none"
    /\ v_out = NoOutcome
    /\ v_out2 = NoOutcome
    /\ v_out3 = NoOutcome
    /\ v_same_run = TRUE

\* The orchestrator before any process started
OrchestratorIdle ==
    /\ ConcurrencyIdle
    /\ IndexerIdle
    /\ variant = "none"
    /\ schema_collection = FALSE
    /\ pc = "off"
    /\ served = 0
    /\ tables_used = 0
    /\ raw_sql = <<>>
    /\ safe_sql = <<>>
    /\ results = 0
    /\ answer = "none"
    /\ log = EmptyLog
    /\ exc = NoExc
    /\ calls = <<>>
    /\ logWrites = 0
    /\ sink = <<>>
    /\ warnings = 0
    /\ response = NoResponse
    /\ use_mock_db = TRUE
    /\ schema_response = NoResponse
    /\ llm_calls = 0
    /\ open_conns = 0

InitV ==
    /\ TransformerIdle
    /\ ExtractorIdle
    /\ ChatIdle
    /\ v_sql \in SqlTexts
    /\ v_max_rows = DefaultMaxRows
    /\ v_impl = "none"
    /\ v_out = NoOutcome
    /\ v_out2 = NoOutcome
    /\ v_out3 = NoOutcome
    /\ v_same_run = TRUE
    /\ OrchestratorIdle

\* safe_sql = validate_sql(raw_sql, max_rows)   (sql_validator.py)
ValidateApi ==
    /\ v_impl = "none"
    /\ v_impl' = "api"
    /\ v_max_rows' \in MaxRowsArgs
    /\ v_out' \in ValidateSql(v_sql, v_max_rows')
    /\ UNCHANGED <<v_sql, v_out2, v_out3, v_same_run, ovars>>

\* safe_sql = validate_sql(raw_sql)   (crypto_agent.py)
ValidateCli ==
    /\ v_impl = "none"
    /\ v_impl' = "cli"
    /\ v_max_rows' = CliMaxRows
    /\ v_out' \in CliValidateSql(v_sql)
    /\ UNCHANGED <<v_sql, v_out2, v_out3, v_same_run, ovars>>

\* validate_sql applied to the string validate_sql returned
Revalidate ==
    /\ v_impl # "none"
    /\ v_out.kind = "ok"
    /\ v_out2 = NoOutcome
    /\ v_out2' \in IF v_impl = "api" THEN ValidateSql(v_out.text, v_max_rows)
                                    ELSE CliValidateSql(v_out.text)
    /\ UNCHANGED <<v_sql, v_max_rows, v_impl, v_out, v_out3, v_same_run, ovars>>

\* validate_sql called once more with the arguments of the first call, in
\* the same process or in another run of the program. BLOCKED_KEYWORDS and
\* BLOCKED are sets of str: the order in which the loop visits them is fixed
\* within one process and changes with the hash seed of the run
ValidateAgain(same_run) ==
    /\ v_impl # "none"
    /\ v_out3 = NoOutcome
    /\ v_same_run' = same_run
    /\ v_out3' \in {o \in (IF v_impl = "api" THEN ValidateSql(v_sql, v_max_rows)
                                              ELSE CliValidateSql(v_sql)) :
                     same_run => o = v_out}
    /\ UNCHANGED <<v_sql, v_max_rows, v_impl, v_out, v_out2, ovars>>

NextV ==
    \/ ValidateApi
    \/ ValidateCli
    \/ Revalidate
    \/ \E same_run \in BOOLEAN : ValidateAgain(same_run)

SpecV == InitV /\ [][NextV]_vars

\* ------------------------------------------------------------------------
\* Collaborators of the orchestrators
\* ------------------------------------------------------------------------
\* What generate_sql can return: the model's text, stripped
GenOutputs ==
    { <<"S", "E", "L", "E", "C", "T", " ", "x">>,
      <<"s", "e", "l", "e", "c", "t", " ", "x", " ", "L", "I", "M", "I", "T", " ", "5", ";">>,
      <<"D", "R", "O", "P", " ", "T", "A", "B", "L", "E", " ", "x">>,
      <<"C", "A", "N", "N", "O", "T", "_", "A", "N", "S", "W", "E", "R">>,
      <<>>,
      <<"S", "E", "L", "E", "C", "T", " ", "x", " ", "L", "I", "M", "I", "T", " ", "9", "0", "0">>,
      <<"S", "E", "L", "E", "C", "T", " ", "d", "e", "l", "e", "t", "e", " ", "C", "R", "E", "A", "T", "E">> }

\* Exception classes a retrieval, generation or formatting call can raise:
\* the OpenAI and ChromaDB clients raise their own Exception subclasses, the
\* native index code raises RuntimeError
StepErrorClasses == {"RuntimeError", "Exception"}

\* What the warehouse driver can raise inside execute_query
BackendErrors == {"connect failed", "sql rejected"}

Exc(class, kind, text, cause) ==
    [class |-> class, kind |-> kind, text |-> text, cause |-> cause]

Call(step, arg) == [step |-> step, arg |-> arg]

\* Number of rows the statement selects before any LIMIT: none, one, or more
\* than either MAX_ROWS
TableSizes == {0, 1, ApiMaxRows + 1}

\* The value of a string of digits
RECURSIVE IntOf(_)
IntOf(d) ==
    IF d = <<>> THEN 0
    ELSE 10 * IntOf(SubSeq(d, 1, Len(d) - 1))
         + ((CHOOSE i \in DOMAIN DigitChars : DigitChars[i] = d[Len(d)]) - 1)

IsDigits(w) == w # <<>> /\ \A i \in DOMAIN w : w[i] \in Range(DigitChars)

\* The database's reading of the statement's own row limit: {n} when the
\* statement ends in LIMIT n, {} when it has no such clause
SqlLimit(sql) ==
    LET t == Split(Upper(RStripSemi(RStrip(sql))))
    IN  IF Len(t) >= 2 /\ t[Len(t) - 1] = LIMIT /\ IsDigits(t[Len(t)])
        THEN {IntOf(t[Len(t)])}
        ELSE {}

\* Rows the cursor holds after executing sql on a table of n matching rows
DbRows(sql, n) ==
    IF \E k \in SqlLimit(sql) : k < n THEN CHOOSE k \in SqlLimit(sql) : TRUE ELSE n

\* cursor.fetchall()
FetchAll(available) == available

\* cursor.fetchmany(MAX_ROWS)
FetchMany(available, size) == IF available > size THEN size ELSE available

\* Mutant: the connection is closed on the return path only
FinallyCloseOnReturn(o) == IF o.raised THEN o ELSE [o EXCEPT !.open = @ - 1]

\* try: ... finally: conn.close()
FinallyClose(o) == [o EXCEPT !.open = @ - 1]

\* What the body of a try block does with the connection it holds: the
\* statement is rejected, or the rows are fetched
TryExecute(rowsets) ==
    {[raised |-> TRUE, rows |-> 0, cause |-> "sql rejected", open |-> 1]}
    \cup {[raised |-> FALSE, rows |-> n, cause |-> "none", open |-> 1] : n \in rowsets}

\* connect() raised: there is no connection
ConnectFailed == [raised |-> TRUE, rows |-> 0, cause |-> "connect failed", open |-> 0]

\* _execute_duckdb / execute_duckdb: connect read-only, execute, fetchall
ExecuteDuckdb(sql) ==
    {ConnectFailed}
    \cup {FinallyClose(o) : o \in TryExecute({FetchAll(DbRows(sql, n)) : n \in TableSizes})}

\* _execute_snowflake / execute_snowflake: connect, execute, fetchmany(MAX_ROWS)
ExecuteSnowflake(sql, max_rows) ==
    {ConnectFailed}
    \cup {FinallyClose(o) :
            o \in TryExecute({FetchMany(DbRows(sql, n), max_rows) : n \in TableSizes})}

\* execute_query of query_executor.py: the rows of the configured backend,
\* or any exception of the driver wrapped in one RuntimeError whose message
\* ends in the driver's text ("Error: {e}")
ExecuteQuery(sql, mock) ==
    {[raised |-> o.raised, rows |-> o.rows, open |-> o.open,
      exc |-> IF o.raised THEN Exc("RuntimeError", "execute", <<>>, o.cause) ELSE NoExc] :
        o \in IF mock THEN ExecuteDuckdb(sql) ELSE ExecuteSnowflake(sql, ApiMaxRows)}

\* ask: execute_duckdb(safe_sql) if demo_mode else execute_snowflake(safe_sql);
\* the driver's exception leaves the function as it is
CliExecute(sql, demo) ==
    {[raised |-> o.raised, rows |-> o.rows, open |-> o.open,
      exc |-> IF o.raised THEN Exc("Exception", "execute", <<>>, o.cause) ELSE NoExc] :
        o \in IF demo THEN ExecuteDuckdb(sql) ELSE ExecuteSnowflake(sql, CliMaxRows)}

\* Mutant: the formatter asks the model whatever the result is
FormatAnswerAlwaysAsks(rows) ==
    {[raised |-> FALSE, answer |-> "model answer", exc |-> NoExc, llm |-> 1]}
    \cup {[raised |-> TRUE, answer |-> "none", llm |-> 1,
           exc |-> Exc(c, "format", <<>>, "none")] : c \in StepErrorClasses}

\* format_answer: the fixed message for an empty result and no call of the
\* model, else one chat completion: the model's text, or the client's exception
FormatAnswer(rows) ==
    IF rows = 0
    THEN {[raised |-> FALSE, answer |-> "no results message", exc |-> NoExc, llm |-> 0]}
    ELSE {[raised |-> FALSE, answer |-> "model answer", exc |-> NoExc, llm |-> 1]}
         \cup {[raised |-> TRUE, answer |-> "none", llm |-> 1,
                exc |-> Exc(c, "format", <<>>, "none")] : c \in StepErrorClasses}

\* Where the log sink can fail inside write_log
SinkFaults == {"ensure connect", "ensure execute", "insert connect", "insert execute"}

\* The faults that leave write_log without a connection
ConnectFaults == {"ensure connect", "insert connect"}

\* The two connections of write_log (_ensure_log_table, then the INSERT),
\* each closed by its finally; the outcome of the database write
LogWrite ==
    {[raised |-> TRUE, open |-> 0, fault |-> f] : f \in SinkFaults \cap ConnectFaults}
    \cup {FinallyClose([raised |-> TRUE, open |-> 1, fault |-> f]) :
            f \in SinkFaults \ ConnectFaults}
    \cup {FinallyClose([raised |-> FALSE, open |-> 1, fault |-> "none"])}

\* Mutant: a fault of the sink leaves write_log as an exception
WriteLogRaises(l, rows) ==
    {[raised |-> w.raised, sink |-> IF w.raised THEN rows ELSE Append(rows, l),
      warned |-> FALSE, open |-> w.open] : w \in LogWrite}

\* write_log of logger.py: the row is inserted, or any fault of the sink is
\* caught by `except Exception` and only a warning is printed
WriteLog(l, rows) ==
    {[raised |-> FALSE, sink |-> IF w.raised THEN rows ELSE Append(rows, l),
      warned |-> w.raised, open |-> w.open] : w \in LogWrite}

\* What the caller of `query` receives
HttpError(status, e) ==
    [status |-> status, detail |-> e, sql |-> <<>>, answer |-> "none",
     row_count |-> 0, tables |-> 0]

QueryResponse(sql, ans, row_count, tables) ==
    [status |-> "200", detail |-> NoExc, sql |-> sql, answer |-> ans,
     row_count |-> row_count, tables |-> tables]

\* An exception that leaves the handler
Unhandled(e) == HttpError("unhandled", e)

\* State of a handler that just accepted a question
FreshQuestion ==
    /\ served' = served + 1
    /\ tables_used' = 0
    /\ raw_sql' = <<>>
    /\ safe_sql' = <<>>
    /\ results' = 0
    /\ answer' = "none"
    /\ log' = EmptyLog
    /\ exc' = NoExc
    /\ calls' = <<>>
    /\ logWrites' = 0
    /\ llm_calls' = 0

\* The five pipeline steps, in the order `query` and `ask` write them
Pipeline == <<"retrieve", "generate", "validate", "execute", "format">>

\* Mutant: the statement after generation is the execution
StepAfterSkipsValidate(step) ==
    CASE step = "retrieve" -> "generate"
      [] step = "generate" -> "execute"
      [] step = "validate" -> "execute"
      [] step = "execute"  -> "format"

\* The statement control reaches when a step returned: the next line of the
\* try block of `query`, of the body of `ask`
StepAfter(step) ==
    CASE step = "retrieve" -> "generate"
      [] step = "generate" -> "validate"
      [] step = "validate" -> "execute"
      [] step = "execute"  -> "format"

\* ------------------------------------------------------------------------
\* api/main.py
\* ------------------------------------------------------------------------
\* lifespan: _schema_collection = build_index()
Lifespan ==
    /\ variant = "api"
    /\ ~schema_collection
    /\ pc \in {"idle", "done"}
    /\ schema_collection' = TRUE
    /\ UNCHANGED <<vvars, fvars, open_conns, llm_calls, variant, pc, served, tables_used, raw_sql, safe_sql, results, answer,
                   log, exc, calls, logWrites, sink, warnings, response>>

\* Mutant: the handler does not test the index and starts the pipeline
QueryNotReadyProceeds ==
    /\ variant = "api"
    /\ pc \in {"idle", "done"}
    /\ served < MaxQuestions
    /\ ~schema_collection
    /\ FreshQuestion
    /\ response' = NoResponse
    /\ pc' = "retrieve"
    /\ UNCHANGED <<vvars, fvars, open_conns, variant, schema_collection, sink, warnings>>

\* query, lines 186-189: the index is not loaded
QueryNotReady ==
    /\ variant = "api"
    /\ pc \in {"idle", "done"}
    /\ served < MaxQuestions
    /\ ~schema_collection
    /\ FreshQuestion
    /\ response' = HttpError("503", NoExc)
    /\ pc' = "done"
    /\ UNCHANGED <<vvars, fvars, open_conns, variant, schema_collection, sink, warnings>>

\* What the caller of `schema` receives: the table names of the collection
SchemaResponse(tables) ==
    [status |-> "200", detail |-> NoExc, sql |-> <<>>, answer |-> "none",
     row_count |-> 0, tables |-> tables]

\* schema, lines 154-155: the index is not loaded
SchemaNotReady ==
    /\ variant = "api"
    /\ pc \in {"idle", "done"}
    /\ ~schema_collection
    /\ schema_response' = HttpError("503", NoExc)
    /\ UNCHANGED <<vvars, evars, use_mock_db, open_conns, llm_calls, variant, schema_collection, pc,
                   served, tables_used, raw_sql, safe_sql, results, answer, log, exc, calls,
                   logWrites, sink, warnings, response>>

\* schema, lines 157-161: the table names in the metadata of the collection,
\* or the exception of _schema_collection.get()
SchemaReady ==
    /\ variant = "api"
    /\ pc \in {"idle", "done"}
    /\ schema_collection
    /\ \/ \E n \in 0..2 : schema_response' = SchemaResponse(n)
       \/ schema_response' = Unhandled(Exc("Exception", "schema", <<>>, "none"))
    /\ UNCHANGED <<vvars, evars, use_mock_db, open_conns, llm_calls, variant, schema_collection, pc,
                   served, tables_used, raw_sql, safe_sql, results, answer, log, exc, calls,
                   logWrites, sink, warnings, response>>

\* query, lines 191-201: the question is accepted, the QueryLog pre-populated
QueryBegin ==
    /\ variant = "api"
    /\ pc \in {"idle", "done"}
    /\ served < MaxQuestions
    /\ schema_collection
    /\ FreshQuestion
    /\ response' = NoResponse
    /\ pc' = "retrieve"
    /\ UNCHANGED <<vvars, fvars, open_conns, variant, schema_collection, sink, warnings>>

\* Step 1: retrieve_relevant_schema, tables_used, log.schema_tables_used
QueryRetrieve ==
    /\ variant = "api"
    /\ pc = "retrieve"
    /\ calls' = Append(calls, Call("retrieve", <<>>))
    /\ \/ \E n \in 0..2 :
            /\ tables_used' = n
            /\ log' = [log EXCEPT !.schema_tables_used = n]
            /\ exc' = exc
            /\ pc' = StepAfter("retrieve")
       \/ \E c \in StepErrorClasses :
            /\ exc' = Exc(c, "retrieve", <<>>, "none")
            /\ UNCHANGED <<tables_used, log>>
            /\ pc' = "except"
    /\ UNCHANGED <<vvars, fvars, open_conns, llm_calls, variant, schema_collection, served, raw_sql, safe_sql,
                   results, answer, logWrites, sink, warnings, response>>

\* Mutant: the model's output is put in the log once it passed validation
LogGeneratedOnceValid(l, g) == l

\* log.generated_sql = raw_sql, the statement after generate_sql
LogGenerated(l, g) == [l EXCEPT !.generated_sql = g]

\* Step 2: raw_sql = generate_sql(...); log.generated_sql = raw_sql
QueryGenerate ==
    /\ variant = "api"
    /\ pc = "generate"
    /\ calls' = Append(calls, Call("generate", <<>>))
    /\ llm_calls' = llm_calls + 1
    /\ \/ \E g \in GenOutputs :
            /\ raw_sql' = g
            /\ log' = LogGenerated(log, g)
            /\ exc' = exc
            /\ pc' = StepAfter("generate")
       \/ \E c \in StepErrorClasses :
            /\ exc' = Exc(c, "generate", <<>>, "none")
            /\ UNCHANGED <<raw_sql, log>>
            /\ pc' = "except"
    /\ UNCHANGED <<vvars, fvars, open_conns, variant, schema_collection, served, tables_used, safe_sql, results,
                   answer, logWrites, sink, warnings, response>>

\* Mutant: the executor is handed the model's raw SQL
ExecuteArgRaw(validated, raw) == raw

\* The argument the orchestrator passes to the executor: safe_sql
ExecuteArg(validated, raw) == validated

\* Step 3: safe_sql = validate_sql(raw_sql)
QueryValidate ==
    /\ variant = "api"
    /\ pc = "validate"
    /\ calls' = Append(calls, Call("validate", raw_sql))
    /\ \E o \in ValidateSql(raw_sql, DefaultMaxRows) :
         IF o.kind = "ok"
         THEN /\ safe_sql' = o.text
              /\ exc' = exc
              /\ pc' = StepAfter("validate")
         ELSE /\ exc' = Exc("SQLValidationError", o.kind, o.text, "none")
              /\ safe_sql' = safe_sql
              /\ pc' = "except"
    /\ UNCHANGED <<vvars, fvars, open_conns, llm_calls, variant, schema_collection, served, tables_used, raw_sql, results,
                   answer, log, logWrites, sink, warnings, response>>

\* Step 4: results = execute_query(safe_sql); log.row_count = len(results)
QueryExecute ==
    /\ variant = "api"
    /\ pc = "execute"
    /\ calls' = Append(calls, Call("execute", ExecuteArg(safe_sql, raw_sql)))
    /\ \E r \in ExecuteQuery(ExecuteArg(safe_sql, raw_sql), use_mock_db) :
         /\ open_conns' = open_conns + r.open
         /\ IF r.raised
            THEN /\ exc' = r.exc
                 /\ UNCHANGED <<results, log>>
                 /\ pc' = "except"
            ELSE /\ results' = r.rows
                 /\ log' = [log EXCEPT !.row_count = r.rows]
                 /\ exc' = exc
                 /\ pc' = StepAfter("execute")
    /\ UNCHANGED <<vvars, fvars, llm_calls, variant, schema_collection, served, tables_used, raw_sql, safe_sql,
                   answer, logWrites, sink, warnings, response>>

\* Step 5: answer = format_answer(question, safe_sql, results); log.answer
QueryFormat ==
    /\ variant = "api"
    /\ pc = "format"
    /\ calls' = Append(calls, Call("format", safe_sql))
    /\ \E r \in FormatAnswer(results) :
         /\ llm_calls' = llm_calls + r.llm
         /\ IF r.raised
            THEN /\ exc' = r.exc
                 /\ UNCHANGED <<answer, log>>
                 /\ pc' = "except"
            ELSE /\ answer' = r.answer
                 /\ log' = [log EXCEPT !.answer = r.answer]
                 /\ exc' = exc
                 /\ pc' = "log"
    /\ UNCHANGED <<vvars, fvars, open_conns, variant, schema_collection, served, tables_used, raw_sql, safe_sql,
                   results, logWrites, sink, warnings, response>>

\* Mutant: the except clause also records a fallback answer
ErrorLogWithAnswer(l, e) == [l EXCEPT !.error = e, !.answer = "fallback answer"]

\* log.error = str(exc) of both except clauses
ErrorLog(l, e) == [l EXCEPT !.error = e]

\* Mutant: the two except clauses raise each other's status
StatusOfSwapped(class) == IF class = "SQLValidationError" THEN "500" ELSE "422"

\* The status of the HTTPException each except clause of `query` raises
StatusOf(class) == IF class = "SQLValidationError" THEN "422" ELSE "500"

\* The handler calls write_log(l) and then delivers r, unless write_log raised
LogThenDeliver(l, r) ==
    /\ log' = l
    /\ logWrites' = logWrites + 1
    /\ \E w \in WriteLog(l, sink) :
         /\ sink' = w.sink
         /\ open_conns' = open_conns + w.open
         /\ warnings' = warnings + (IF w.warned THEN 1 ELSE 0)
         /\ response' = IF w.raised THEN Unhandled(Exc("Exception", "log", <<>>, "none"))
                                    ELSE r
    /\ pc' = "done"

\* except SQLValidationError: log.error, write_log, HTTPException(422)
QueryExceptValidation ==
    /\ variant = "api"
    /\ pc = "except"
    /\ exc.class = "SQLValidationError"
    /\ LogThenDeliver(ErrorLog(log, exc), HttpError(StatusOf(exc.class), exc))
    /\ UNCHANGED <<vvars, fvars, llm_calls, variant, schema_collection, served, tables_used, raw_sql, safe_sql,
                   results, answer, exc, calls>>

\* except RuntimeError: log.error, write_log, HTTPException(500)
QueryExceptRuntime ==
    /\ variant = "api"
    /\ pc = "except"
    /\ exc.class = "RuntimeError"
    /\ LogThenDeliver(ErrorLog(log, exc), HttpError(StatusOf(exc.class), exc))
    /\ UNCHANGED <<vvars, fvars, llm_calls, variant, schema_collection, served, tables_used, raw_sql, safe_sql,
                   results, answer, exc, calls>>

\* No except clause matches: the exception leaves the handler
QueryPropagate ==
    /\ variant = "api"
    /\ pc = "except"
    /\ exc.class \notin {"SQLValidationError", "RuntimeError"}
    /\ response' = Unhandled(exc)
    /\ pc' = "done"
    /\ UNCHANGED <<vvars, fvars, open_conns, llm_calls, variant, schema_collection, served, tables_used, raw_sql, safe_sql,
                   results, answer, log, exc, calls, logWrites, sink, warnings>>

\* lines 243-253: write_log(log); return QueryResponse(...)
QueryReturn ==
    /\ variant = "api"
    /\ pc = "log"
    /\ LogThenDeliver(log, QueryResponse(safe_sql, answer, log.row_count, tables_used))
    /\ UNCHANGED <<vvars, fvars, llm_calls, variant, schema_collection, served, tables_used, raw_sql, safe_sql,
                   results, answer, exc, calls>>

\* ------------------------------------------------------------------------
\* crypto_agent.py: main and ask
\* ------------------------------------------------------------------------
\* What the user of the CLI sees for one question
\* Mutant: the handler of ValidationError prints and returns
ExitCodeWithoutSysExit(v, status) ==
    IF v = "cli_loop" THEN -1
    ELSE IF status = "unhandled" THEN 1
    ELSE 0

\* The exit code of the process after main handled a question given as an
\* argument: sys.exit(1) in the handler of ValidationError, 1 when the
\* interpreter ends on an exception nothing caught, 0 when main returns;
\* -1 while the interactive loop goes on
ExitCode(v, status) ==
    IF v = "cli_loop" THEN -1
    ELSE IF status = "validation error" THEN 1
    ELSE IF status = "unhandled" THEN 1
    ELSE 0

CliOutcome(status, e, sql, ans, row_count, tables) ==
    [status |-> status, detail |-> e, sql |-> sql, answer |-> ans,
     row_count |-> row_count, tables |-> tables, exit |-> ExitCode(variant, status)]

\* main calls ask(question, collection, demo_mode): once for a question
\* argument, once per line read in the interactive loop
AskBegin ==
    /\ variant \in {"cli", "cli_loop"}
    /\ pc \in {"idle", "done"}
    /\ served < (IF variant = "cli" THEN 1 ELSE MaxQuestions)
    /\ FreshQuestion
    /\ response' = NoResponse
    /\ pc' = "retrieve"
    /\ UNCHANGED <<vvars, fvars, open_conns, variant, schema_collection, log, sink, warnings>>

\* 1. schema_ctx, tables_used = retrieve_schema(collection, question)
AskRetrieve ==
    /\ variant \in {"cli", "cli_loop"}
    /\ pc = "retrieve"
    /\ calls' = Append(calls, Call("retrieve", <<>>))
    /\ \/ \E n \in 0..2 :
            /\ tables_used' = n
            /\ exc' = exc
            /\ pc' = StepAfter("retrieve")
       \/ \E c \in StepErrorClasses :
            /\ exc' = Exc(c, "retrieve", <<>>, "none")
            /\ tables_used' = tables_used
            /\ pc' = "except"
    /\ UNCHANGED <<vvars, fvars, open_conns, llm_calls, variant, schema_collection, served, raw_sql, safe_sql,
                   results, answer, log, logWrites, sink, warnings, response>>

\* 2. raw_sql = generate_sql(question, schema_ctx, demo_mode)
AskGenerate ==
    /\ variant \in {"cli", "cli_loop"}
    /\ pc = "generate"
    /\ calls' = Append(calls, Call("generate", <<>>))
    /\ llm_calls' = llm_calls + 1
    /\ \/ \E g \in GenOutputs :
            /\ raw_sql' = g
            /\ exc' = exc
            /\ pc' = StepAfter("generate")
       \/ \E c \in StepErrorClasses :
            /\ exc' = Exc(c, "generate", <<>>, "none")
            /\ raw_sql' = raw_sql
            /\ pc' = "except"
    /\ UNCHANGED <<vvars, fvars, open_conns, variant, schema_collection, served, tables_used, safe_sql,
                   results, answer, log, logWrites, sink, warnings, response>>

\* 3. safe_sql = validate_sql(raw_sql)
AskValidate ==
    /\ variant \in {"cli", "cli_loop"}
    /\ pc = "validate"
    /\ calls' = Append(calls, Call("validate", raw_sql))
    /\ \E o \in CliValidateSql(raw_sql) :
         IF o.kind = "ok"
         THEN /\ safe_sql' = o.text
              /\ exc' = exc
              /\ pc' = StepAfter("validate")
         ELSE /\ exc' = Exc("ValidationError", o.kind, o.text, "none")
              /\ safe_sql' = safe_sql
              /\ pc' = "except"
    /\ UNCHANGED <<vvars, fvars, open_conns, llm_calls, variant, schema_collection, served, tables_used, raw_sql,
                   results, answer, log, logWrites, sink, warnings, response>>

\* 4. results = execute_duckdb(safe_sql) if demo_mode else execute_snowflake(safe_sql)
AskExecute ==
    /\ variant \in {"cli", "cli_loop"}
    /\ pc = "execute"
    /\ calls' = Append(calls, Call("execute", ExecuteArg(safe_sql, raw_sql)))
    /\ \E r \in CliExecute(ExecuteArg(safe_sql, raw_sql), use_mock_db) :
         /\ open_conns' = open_conns + r.open
         /\ IF r.raised
            THEN /\ exc' = r.exc
                 /\ results' = results
                 /\ pc' = "except"
            ELSE /\ results' = r.rows
                 /\ exc' = exc
                 /\ pc' = StepAfter("execute")
    /\ UNCHANGED <<vvars, fvars, llm_calls, variant, schema_collection, served, tables_used, raw_sql,
                   safe_sql, answer, log, logWrites, sink, warnings, response>>

\* 5. answer = format_answer(question, safe_sql, results)
AskFormat ==
    /\ variant \in {"cli", "cli_loop"}
    /\ pc = "format"
    /\ calls' = Append(calls, Call("format", safe_sql))
    /\ \E r \in FormatAnswer(results) :
         /\ llm_calls' = llm_calls + r.llm
         /\ IF r.raised
            THEN /\ exc' = r.exc
                 /\ answer' = answer
                 /\ pc' = "except"
            ELSE /\ answer' = r.answer
                 /\ exc' = exc
                 /\ pc' = "return"
    /\ UNCHANGED <<vvars, fvars, open_conns, variant, schema_collection, served, tables_used, raw_sql,
                   safe_sql, results, log, logWrites, sink, warnings, response>>

\* ask returns the result dict and main prints it
AskReturn ==
    /\ variant \in {"cli", "cli_loop"}
    /\ pc = "return"
    /\ response' = CliOutcome("result", NoExc, safe_sql, answer, results, tables_used)
    /\ pc' = "done"
    /\ UNCHANGED <<vvars, fvars, open_conns, llm_calls, variant, schema_collection, served, tables_used, raw_sql,
                   safe_sql, results, answer, log, exc, calls, logWrites, sink, warnings>>

\* main: except ValidationError, in the loop and for a question argument
\* (there followed by sys.exit(1))
MainExceptValidation ==
    /\ variant \in {"cli", "cli_loop"}
    /\ pc = "except"
    /\ exc.class = "ValidationError"
    /\ response' = CliOutcome("validation error", exc, <<>>, "none", 0, 0)
    /\ pc' = "done"
    /\ UNCHANGED <<vvars, fvars, open_conns, llm_calls, variant, schema_collection, served, tables_used, raw_sql,
                   safe_sql, results, answer, log, exc, calls, logWrites, sink, warnings>>

\* main: any other exception is printed by the loop's `except Exception`;
\* with a question argument nothing catches it
MainExceptOther ==
    /\ variant \in {"cli", "cli_loop"}
    /\ pc = "except"
    /\ exc.class # "ValidationError"
    /\ response' = CliOutcome(IF variant = "cli_loop" THEN "error" ELSE "unhandled",
                              exc, <<>>, "none", 0, 0)
    /\ pc' = "done"
    /\ UNCHANGED <<vvars, fvars, open_conns, llm_calls, variant, schema_collection, served, tables_used, raw_sql,
                   safe_sql, results, answer, log, exc, calls, logWrites, sink, warnings>>

\* ------------------------------------------------------------------------
\* Spec: one process, the API service or the CLI, serving questions
\* ------------------------------------------------------------------------
Init ==
    /\ TransformerIdle
    /\ ExtractorIdle
    /\ ChatIdle
    /\ ValidatorIdle
    /\ ConcurrencyIdle
    /\ IndexerIdle
    /\ variant \in {"api", "cli", "cli_loop"}
    /\ schema_collection = (variant # "api")
    /\ pc = "idle"
    /\ served = 0
    /\ tables_used = 0
    /\ raw_sql = <<>>
    /\ safe_sql = <<>>
    /\ results = 0
    /\ answer = "none"
    /\ log = EmptyLog
    /\ exc = NoExc
    /\ calls = <<>>
    /\ logWrites = 0
    /\ sink = <<>>
    /\ warnings = 0
    /\ response = NoResponse
    /\ use_mock_db \in BOOLEAN
    /\ schema_response = NoResponse
    /\ llm_calls = 0
    /\ open_conns = 0

Next ==
    \/ Lifespan
    \/ QueryNotReady
    \/ SchemaNotReady
    \/ SchemaReady
    \/ QueryBegin
    \/ QueryRetrieve
    \/ QueryGenerate
    \/ QueryValidate
    \/ QueryExecute
    \/ QueryFormat
    \/ QueryExceptValidation
    \/ QueryExceptRuntime
    \/ QueryPropagate
    \/ QueryReturn
    \/ AskBegin
    \/ AskRetrieve
    \/ AskGenerate
    \/ AskValidate
    \/ AskExecute
    \/ AskFormat
    \/ AskReturn
    \/ MainExceptValidation
    \/ MainExceptOther

Spec == Init /\ [][Next]_vars

\* ------------------------------------------------------------------------
\* SpecC: the API service with several requests in flight. uvicorn runs the
\* app in one process on one event loop; `query` is an `async def` whose body
\* has no await, so the loop runs each handler from its first statement to
\* its return, and its blocking calls (embedding, chat completion, warehouse
\* query, log write) hold the loop's thread
\* ------------------------------------------------------------------------
\* The steps of `query` that wait for the network
NetworkSteps == {"retrieve", "generate", "execute", "format", "log", "except"}

InitC ==
    /\ TransformerIdle
    /\ ExtractorIdle
    /\ ChatIdle
    /\ ValidatorIdle
    /\ variant = "api"
    /\ schema_collection = TRUE
    /\ pc = "off"
    /\ served = 0
    /\ tables_used = 0
    /\ raw_sql = <<>>
    /\ safe_sql = <<>>
    /\ results = 0
    /\ answer = "none"
    /\ log = EmptyLog
    /\ exc = NoExc
    /\ calls = <<>>
    /\ logWrites = 0
    /\ sink = <<>>
    /\ warnings = 0
    /\ response = NoResponse
    /\ use_mock_db \in BOOLEAN
    /\ schema_response = NoResponse
    /\ llm_calls = 0
    /\ open_conns = 0
    /\ IndexerIdle
    /\ c_pc = [q \in Requests |-> "client"]
    /\ c_loop = 0
    /\ c_hung = 0
    /\ c_status = [q \in Requests |-> "none"]

CFrame == UNCHANGED <<vvars, tvars, xvars, svars, ivars, variant, schema_collection, pc, served, tables_used,
                      raw_sql, safe_sql, results, answer, log, exc, calls, logWrites, sink,
                      warnings, response, llm_calls, open_conns, use_mock_db, schema_response>>

\* The server receives request q and schedules its handler on the event loop
Receive(q) ==
    /\ c_pc[q] = "client"
    /\ c_pc' = [c_pc EXCEPT ![q] = "scheduled"]
    /\ UNCHANGED <<c_loop, c_hung, c_status>>
    /\ CFrame

\* The event loop, running no other handler, starts the handler of q
LoopRuns(q) ==
    /\ c_loop = 0
    /\ c_pc[q] = "scheduled"
    /\ c_loop' = q
    /\ c_pc' = [c_pc EXCEPT ![q] = "retrieve"]
    /\ UNCHANGED <<c_hung, c_status>>
    /\ CFrame

\* A step of the handler of q returns, and the handler goes on to the next
\* statement without giving up the loop
StepReturns(q) ==
    /\ c_loop = q
    /\ c_hung # q
    /\ c_pc[q] \in {"retrieve", "generate", "validate", "execute", "format"}
    /\ c_pc' = [c_pc EXCEPT ![q] = IF c_pc[q] = "format" THEN "log" ELSE StepAfter(c_pc[q])]
    /\ UNCHANGED <<c_loop, c_hung, c_status>>
    /\ CFrame

\* A step of the handler of q raises: an except clause, or out of the handler
StepRaises(q) ==
    /\ c_loop = q
    /\ c_hung # q
    /\ c_pc[q] \in {"retrieve", "generate", "validate", "execute", "format"}
    /\ \/ /\ c_pc[q] = "validate"
          /\ c_status' = [c_status EXCEPT ![q] = StatusOf("SQLValidationError")]
          /\ c_pc' = [c_pc EXCEPT ![q] = "except"]
          /\ c_loop' = c_loop
       \/ /\ c_pc[q] # "validate"
          /\ c_status' = [c_status EXCEPT ![q] = StatusOf("RuntimeError")]
          /\ c_pc' = [c_pc EXCEPT ![q] = "except"]
          /\ c_loop' = c_loop
       \/ /\ c_pc[q] \in {"retrieve", "generate", "format"}
          /\ c_status' = [c_status EXCEPT ![q] = "unhandled"]
          /\ c_pc' = [c_pc EXCEPT ![q] = "done"]
          /\ c_loop' = 0
    /\ c_hung' = c_hung
    /\ CFrame

\* write_log returns and the handler of q ends: the loop is free again
HandlerEnds(q) ==
    /\ c_loop = q
    /\ c_hung # q
    /\ c_pc[q] \in {"log", "except"}
    /\ c_status' = [c_status EXCEPT ![q] = IF c_pc[q] = "log" THEN "200" ELSE @]
    /\ c_pc' = [c_pc EXCEPT ![q] = "done"]
    /\ c_loop' = 0
    /\ c_hung' = c_hung
    /\ CFrame

\* The network call the handler of q is in does not return
CallHangs(q) ==
    /\ c_loop = q
    /\ c_hung = 0
    /\ c_pc[q] \in NetworkSteps
    /\ c_hung' = q
    /\ UNCHANGED <<c_pc, c_loop, c_status>>
    /\ CFrame

\* What request q can do next
Advance(q) ==
    \/ LoopRuns(q)
    \/ StepReturns(q)
    \/ StepRaises(q)
    \/ HandlerEnds(q)

NextC ==
    \E q \in Requests :
        \/ Receive(q)
        \/ Advance(q)
        \/ CallHangs(q)

SpecC == InitC /\ [][NextC]_vars

\* ------------------------------------------------------------------------
\* SpecI: the schema indexer, schema_indexer.py (api) and crypto_agent.py (cli)
\* ------------------------------------------------------------------------
\* sep.join(parts)
RECURSIVE Join(_, _)
Join(sep, parts) ==
    IF parts = <<>> THEN <<>>
    ELSE IF Len(parts) = 1 THEN parts[1]
    ELSE parts[1] \o sep \o Join(sep, Tail(parts))

NL == <<"\n">>
TablePrefix == <<"T", "a", "b", "l", "e", ":", " ">>
DescriptionPrefix == <<"D", "e", "s", "c", "r", "i", "p", "t", "i", "o", "n", ":", " ">>
SnowflakePrefix == <<"S", "n", "o", "w", "f", "l", "a", "k", "e", " ", "n", "a", "m", "e", ":", " ">>
ColumnsHeader == <<"C", "o", "l", "u", "m", "n", "s", ":", "\n">>
ExamplesHeader == <<"E", "x", "a", "m", "p", "l", "e", " ", "q", "u", "e", "s", "t", "i", "o", "n", "s", " ", "t", "h", "i", "s", " ", "t", "a", "b", "l", "e", " ", "c", "a", "n", " ", "a", "n", "s", "w", "e", "r", ":", "\n">>
CliExamplesHeader == <<"E", "x", "a", "m", "p", "l", "e", " ", "q", "u", "e", "s", "t", "i", "o", "n", "s", ":", "\n">>
Bullet == <<" ", " ", "-", " ">>

\* f"  - {col['name']} ({col['type']}): {col['description']}"
ColumnLine(col) ==
    Bullet \o col.name \o <<" ", "(">> \o col.type \o <<")", ":", " ">> \o col.description

\* f"  - {q}"
QuestionLine(q) == Bullet \o q

\* The generator expressions of _load_schema
ColumnLines(columns) == [k \in DOMAIN columns |-> ColumnLine(columns[k])]
QuestionLines(questions) == [k \in DOMAIN questions |-> QuestionLine(questions[k])]
ColumnNames(columns) == [k \in DOMAIN columns |-> columns[k].name]

\* The text of the chunk of one table (the text that gets embedded)
ChunkText(table) ==
    TablePrefix \o table.name \o NL
    \o DescriptionPrefix \o table.description \o NL
    \o ColumnsHeader \o Join(NL, ColumnLines(table.columns)) \o NL
    \o ExamplesHeader \o Join(NL, QuestionLines(table.sample_questions))

CliChunkText(table) ==
    TablePrefix \o table.name \o NL
    \o SnowflakePrefix \o table.snowflake_name \o NL
    \o DescriptionPrefix \o table.description \o NL
    \o ColumnsHeader \o Join(NL, ColumnLines(table.columns)) \o NL
    \o CliExamplesHeader \o Join(NL, QuestionLines(table.sample_questions))

\* The dict _load_schema appends for one table
Chunk(table) ==
    [id |-> table.name,
     text |-> ChunkText(table),
     metadata |-> [table_name |-> table.name,
                   column_count |-> Str(Len(table.columns)),
                   column_names |-> Join(<<",">>, ColumnNames(table.columns))]]

\* The dict _load_schema_docs appends for one table
CliChunk(table) ==
    [id |-> table.name,
     text |-> CliChunkText(table),
     metadata |-> [table_name |-> table.name,
                   snowflake_name |-> table.snowflake_name,
                   column_names |-> Join(<<",">>, ColumnNames(table.columns))]]

\* Mutant: one chunk per column
RECURSIVE LoadSchemaPerColumn(_, _)
LoadSchemaPerColumn(tables, impl) ==
    IF tables = <<>> THEN <<>>
    ELSE [k \in DOMAIN tables[1].columns |->
             [id |-> tables[1].name \o <<".">> \o tables[1].columns[k].name,
              text |-> ColumnLine(tables[1].columns[k]),
              metadata |-> [table_name |-> tables[1].name]]]
         \o LoadSchemaPerColumn(Tail(tables), impl)

\* _load_schema / _load_schema_docs: the list of chunks built from the
\* tables of the document, one per table, in the document's order
LoadSchema(tables, impl) ==
    [k \in DOMAIN tables |-> IF impl = "api" THEN Chunk(tables[k]) ELSE CliChunk(tables[k])]

\* Tables and documents the schema file can hold
Column(name) == [name |-> name, type |-> <<"n">>, description |-> <<"d">>]

TableOrders ==
    [name |-> <<"t", "1">>, snowflake_name |-> <<"T", "1">>, description |-> <<"d">>,
     columns |-> <<Column(<<"k", "1">>), Column(<<"k", "_", "2">>)>>,
     sample_questions |-> <<<<"q", "?">>>>]

TableEmpty ==
    [name |-> <<"t", "2">>, snowflake_name |-> <<"T", "2">>, description |-> <<"d">>,
     columns |-> <<>>, sample_questions |-> <<>>]

\* The first table after an edit of the document: another column
TableOrdersEdited ==
    [TableOrders EXCEPT !.columns = <<Column(<<"k", "3">>)>>]

\* A table whose description has two lines, the second one about the table
\* it refers to
TableItems ==
    [name |-> <<"t", "3">>, snowflake_name |-> <<"T", "3">>,
     description |-> <<"d", "\n", "T", "a", "b", "l", "e", ":", " ", "t", "1">>,
     columns |-> <<Column(<<"k", "1">>)>>, sample_questions |-> <<>>]

Document(tables) == [exists |-> TRUE, tables |-> tables]

SchemaDocs ==
    { MissingFile,
      Document(<<>>),
      Document(<<TableOrders>>),
      Document(<<TableOrders, TableEmpty>>),
      Document(<<TableOrdersEdited>>),
      Document(<<TableOrders, TableOrdersEdited>>),
      Document(<<TableOrders, TableItems>>) }

Collection(chunks) == [exists |-> TRUE, chunks |-> chunks]

\* collection.add(ids, documents, metadatas): the embedding function is
\* called once for the batch; ChromaDB rejects duplicate ids, and rejects or
\* ignores an empty batch; the embedding request can fail
CollectionAdd(chunks) ==
    IF chunks = <<>>
    THEN {[raised |-> TRUE, chunks |-> <<>>, embeds |-> 0],
          [raised |-> FALSE, chunks |-> <<>>, embeds |-> 0]}
    ELSE IF \E a, b \in DOMAIN chunks : a # b /\ chunks[a].id = chunks[b].id
    THEN {[raised |-> TRUE, chunks |-> <<>>, embeds |-> 0]}
    ELSE {[raised |-> TRUE, chunks |-> <<>>, embeds |-> 1],
          [raised |-> FALSE, chunks |-> chunks, embeds |-> 1]}

\* Mutant: force_rebuild is not looked at
ZeroCostPathIgnoringForce(found, force) == found.exists

\* CHROMA_COLLECTION in existing_names and not force_rebuild
ZeroCostPath(found, force) == found.exists /\ ~force

BuildResult(path, raised, force) ==
    [path |-> path, raised |-> raised, force |-> force, found |-> i_coll, doc |-> i_doc]

InitI ==
    /\ TransformerIdle
    /\ ExtractorIdle
    /\ ChatIdle
    /\ ValidatorIdle
    /\ variant = "none"
    /\ schema_collection = FALSE
    /\ pc = "off"
    /\ served = 0
    /\ tables_used = 0
    /\ raw_sql = <<>>
    /\ safe_sql = <<>>
    /\ results = 0
    /\ answer = "none"
    /\ log = EmptyLog
    /\ exc = NoExc
    /\ calls = <<>>
    /\ logWrites = 0
    /\ sink = <<>>
    /\ warnings = 0
    /\ response = NoResponse
    /\ use_mock_db = TRUE
    /\ schema_response = NoResponse
    /\ llm_calls = 0
    /\ open_conns = 0
    /\ ConcurrencyIdle
    /\ i_impl \in {"api", "cli"}
    /\ i_doc \in SchemaDocs
    /\ i_coll = NoCollection
    /\ i_chunks = NoChunks
    /\ i_embed_calls = 0
    /\ i_doc_reads = 0
    /\ i_result = NoResult
    /\ i_edited = FALSE
    /\ i_retrieval = NoRetrieval

IFrame == UNCHANGED <<vvars, tvars, xvars, svars, cvars, variant, schema_collection, pc, served, tables_used,
                      raw_sql, safe_sql, results, answer, log, exc, calls, logWrites, sink,
                      warnings, response, llm_calls, open_conns, use_mock_db, schema_response>>

\* build_index(force_rebuild) takes the zero-cost path: get_collection
BuildIndexLoads(force) ==
    /\ ZeroCostPath(i_coll, force)
    /\ i_result' = BuildResult("load", FALSE, force)
    /\ i_embed_calls' = 0
    /\ i_doc_reads' = 0
    /\ i_chunks' = NoChunks
    /\ UNCHANGED <<i_impl, i_doc, i_coll, i_edited, i_retrieval>>
    /\ IFrame

\* build_index(force_rebuild) builds: delete_collection if there is one,
\* create_collection, _load_schema, collection.add
BuildIndexBuilds(force) ==
    /\ ~ZeroCostPath(i_coll, force)
    /\ IF ~i_doc.exists
       THEN \* FileNotFoundError: the collection was created and stays empty
            /\ i_coll' = Collection(<<>>)
            /\ i_chunks' = NoChunks
            /\ i_embed_calls' = 0
            /\ i_doc_reads' = 0
            /\ i_result' = BuildResult("build", TRUE, force)
       ELSE /\ i_chunks' = [loaded |-> TRUE, docs |-> LoadSchema(i_doc.tables, i_impl)]
            /\ i_doc_reads' = 1
            /\ \E a \in CollectionAdd(i_chunks'.docs) :
                 /\ i_coll' = Collection(a.chunks)
                 /\ i_embed_calls' = a.embeds
                 /\ i_result' = BuildResult("build", a.raised, force)
    /\ UNCHANGED <<i_impl, i_doc, i_edited, i_retrieval>>
    /\ IFrame

\* The schema file is edited, created or removed between two runs
EditDocument ==
    /\ i_doc' \in SchemaDocs \ {i_doc}
    /\ i_edited' = TRUE
    /\ UNCHANGED <<i_impl, i_coll, i_chunks, i_embed_calls, i_doc_reads, i_result, i_retrieval>>
    /\ IFrame

\* str.splitlines(), for texts whose only line boundary is "\n": a line
\* starts at the first character and after every "\n", and ends before the
\* next "\n"; a "\n" at the end of the text starts no line
SplitLines(s) ==
    LET breaks == {i \in 1..Len(s) : s[i] = "\n"}
        starts == {a \in {1} \cup {i + 1 : i \in breaks} : a <= Len(s)}
        StartOf(k) == CHOOSE a \in starts : Cardinality({b \in starts : b < a}) = k - 1
        EndOf(a) == IF \E i \in breaks : i >= a
                    THEN (CHOOSE i \in breaks : i >= a /\ \A j \in breaks : j >= a => i <= j) - 1
                    ELSE Len(s)
    IN  [k \in 1..Cardinality(starts) |-> SubSeq(s, StartOf(k), EndOf(StartOf(k)))]

\* str.startswith(prefix)
StartsWith(s, prefix) ==
    Len(s) >= Len(prefix) /\ SubSeq(s, 1, Len(prefix)) = prefix

\* str.replace(old, new): every occurrence, from the left
RECURSIVE Replace(_, _, _)
Replace(s, old, new) ==
    IF Len(s) < Len(old) THEN s
    ELSE IF SubSeq(s, 1, Len(old)) = old
         THEN new \o Replace(SubSeq(s, Len(old) + 1, Len(s)), old, new)
         ELSE <<s[1]>> \o Replace(Tail(s), old, new)

\* The elements of xs that satisfy the test of main.py's comprehension
RECURSIVE TableLines(_)
TableLines(xs) ==
    IF xs = <<>> THEN <<>>
    ELSE (IF StartsWith(xs[1], <<"T", "a", "b", "l", "e", ":">>) THEN <<xs[1]>> ELSE <<>>)
         \o TableLines(Tail(xs))

\* n_results of retrieve_relevant_schema, n of retrieve_schema
DefaultNeighbours == 2
NeighbourArgs == 1..(DefaultNeighbours + 1)

ContextSeparator == <<"\n", "\n", "-", "-", "-", "\n", "\n">>
NoRelevantSchema == <<"N", "o", " ", "r", "e", "l", "e", "v", "a", "n", "t", " ", "s", "c",
                      "h", "e", "m", "a", " ", "f", "o", "u", "n", "d", ".">>

Min(a, b) == IF a < b THEN a ELSE b

\* The orders in which k of `count` stored chunks can come back, nearest first
Rankings(count, k) ==
    {r \in [1..k -> 1..count] : \A a, b \in 1..k : a # b => r[a] # r[b]}

\* collection.query(query_texts=[question], n_results=n_results): ChromaDB
\* validates n_results first and rejects a number that is not positive, then
\* embeds the question (a request that can fail) and returns the n_results
\* nearest chunks
CollectionQuery(chunks, n_results) ==
    IF n_results <= 0
    THEN {[raised |-> TRUE, cause |-> "n_results", docs |-> <<>>]}
    ELSE {[raised |-> TRUE, cause |-> "embedding", docs |-> <<>>]}
         \cup {[raised |-> FALSE, cause |-> "none",
                docs |-> [j \in 1..n_results |-> chunks[r[j]]]] :
               r \in Rankings(Len(chunks), n_results)}

ChunkTexts(docs) == [k \in DOMAIN docs |-> docs[k].text]
ChunkTables(docs) == [k \in DOMAIN docs |-> docs[k].metadata.table_name]

\* retrieve_relevant_schema's return value for the documents of the result
SchemaContext(docs) ==
    IF docs = <<>> THEN NoRelevantSchema ELSE Join(ContextSeparator, ChunkTexts(docs))

\* api/main.py: the table names `query` reads back from the context
TablesUsed(schema_context) ==
    LET lines == TableLines(SplitLines(schema_context))
    IN  [k \in DOMAIN lines |-> Strip(Replace(lines[k], <<"T", "a", "b", "l", "e", ":">>, <<>>))]

\* retrieve_relevant_schema (followed by main.py's extraction of the table
\* names) and retrieve_schema: how a call with n neighbours can end
Retrieval(chunks, n, impl) ==
    LET requested == Min(n, Len(chunks))
    IN  {[n |-> n, count |-> Len(chunks), requested |-> requested, raised |-> q.raised, cause |-> q.cause,
          docs |-> q.docs,
          context |-> IF q.raised THEN <<>>
                      ELSE IF impl = "api" THEN SchemaContext(q.docs)
                      ELSE Join(ContextSeparator, ChunkTexts(q.docs)),
          tables |-> IF q.raised THEN <<>>
                     ELSE IF impl = "api" THEN TablesUsed(SchemaContext(q.docs))
                     ELSE ChunkTables(q.docs)] :
         q \in CollectionQuery(chunks, requested)}

\* A question is asked on the handle build_index returned
Retrieve(n) ==
    /\ i_result.path # "none"
    /\ ~i_result.raised
    /\ i_retrieval' \in Retrieval(i_coll.chunks, n, i_impl)
    /\ UNCHANGED <<i_impl, i_doc, i_coll, i_chunks, i_embed_calls, i_doc_reads, i_result,
                   i_edited>>
    /\ IFrame

NextI ==
    \/ \E force \in BOOLEAN : BuildIndexLoads(force)
    \/ \E force \in BOOLEAN : BuildIndexBuilds(force)
    \/ EditDocument
    \/ \E n \in NeighbourArgs : Retrieve(n)

SpecI == InitI /\ [][NextI]_vars

\* validate_sql applied to each text the generator can return
ApiOutcomes == [g \in GenOutputs |-> ValidateSql(g, DefaultMaxRows)]
CliOutcomes == [g \in GenOutputs |-> CliValidateSql(g)]

\* ------------------------------------------------------------------------
\* SpecS: one process serving questions one after another: the API service,
\* the interactive CLI, or a Streamlit session, whose script runs from top to
\* bottom on every interaction of the user
\* ------------------------------------------------------------------------
MaxChat == 2          \* questions one process is asked

\* Mutant: the prompt always names Snowflake
DialectAlwaysSnowflake(flag) == "snowflake"

\* dialect = "duckdb" if USE_MOCK_DB else "snowflake"  (main.py);
\* dialect = "DuckDB" if demo_mode else "Snowflake"  (generate_sql, crypto_agent.py)
Dialect(flag) == IF flag THEN "duckdb" ELSE "snowflake"

\* The backend the executor's branch on the flag picks
Backend(flag) == IF flag THEN "duckdb" ELSE "snowflake"

\* The pipeline call raised e
Failure(e, dialect, backend) ==
    [asked |-> TRUE, raised |-> TRUE, exc |-> e, result |-> NoDict,
     dialect |-> dialect, backend |-> backend]

\* The dict `ask` returns
AskDict(sql, ans, row_count, tables) ==
    [question |-> "question", sql |-> sql, answer |-> ans, row_count |-> row_count,
     latency_ms |-> "latency", tables_used |-> tables]

\* Steps 4 and 5 of the pipeline for the validated statement sql
ExecuteAndFormat(front, flag, sql) ==
    UNION {IF r.raised
           THEN {Failure(r.exc, Dialect(flag), Backend(flag))}
           ELSE {IF f.raised
                 THEN Failure(f.exc, Dialect(flag), Backend(flag))
                 ELSE [asked |-> TRUE, raised |-> FALSE, exc |-> NoExc,
                       result |-> AskDict(sql, f.answer, r.rows, t),
                       dialect |-> Dialect(flag), backend |-> Backend(flag)] :
                 f \in FormatAnswer(r.rows), t \in 1..DefaultNeighbours} :
           r \in IF front = "api" THEN ExecuteQuery(sql, flag) ELSE CliExecute(sql, flag)}

\* `ask(question, collection, demo_mode=flag)`, and the try block of `query`
\* under USE_MOCK_DB = flag: every way the five steps can end
RunPipeline(front, flag) ==
    {Failure(Exc(c, "retrieve", <<>>, "none"), "none", "none") : c \in StepErrorClasses}
    \cup {Failure(Exc(c, "generate", <<>>, "none"), Dialect(flag), "none") :
             c \in StepErrorClasses}
    \cup UNION {UNION {IF o.kind # "ok"
                       THEN {Failure(Exc(IF front = "api" THEN "SQLValidationError"
                                                          ELSE "ValidationError",
                                         o.kind, o.text, "none"),
                                     Dialect(flag), "none")}
                       ELSE ExecuteAndFormat(front, flag, o.text) :
                       o \in IF front = "api" THEN ApiOutcomes[g] ELSE CliOutcomes[g]} :
                g \in GenOutputs}

\* A dict of st.session_state["messages"]
ChatMessage(role, mark, content, detail, sql, row_count, latency_ms, tables) ==
    [role |-> role, mark |-> mark, content |-> content, detail |-> detail, sql |-> sql,
     row_count |-> row_count, latency_ms |-> latency_ms, tables_used |-> tables]

UserMessage == ChatMessage("user", "", "question", NoExc, <<>>, -1, "none", -1)

\* f"⚠️ {e}"
WarningMessage(e) == ChatMessage("assistant", "warning", "", e, <<>>, -1, "none", -1)

\* f"❌ Error: {e}"
ErrorMessage(e) == ChatMessage("assistant", "error", "", e, <<>>, -1, "none", -1)

\* The keys of `result` the handler reads before it saves the answer
RenderKeys == <<"answer", "sql", "row_count", "latency_ms", "schema_tables_used">>

\* The first of these keys the dict does not have, or "none"
FirstMissing(d) ==
    IF \A k \in DOMAIN RenderKeys : RenderKeys[k] \in DOMAIN d THEN "none"
    ELSE RenderKeys[CHOOSE k \in DOMAIN RenderKeys :
                        /\ RenderKeys[k] \notin DOMAIN d
                        /\ \A j \in 1..(k - 1) : RenderKeys[j] \in DOMAIN d]

\* The message saved to the history for the answer
AnswerMessage(result) ==
    ChatMessage("assistant", "", result.answer, NoExc, result.sql, result.row_count,
                result.latency_ms, result.schema_tables_used)

\* The try block of the chat handler around ask() and its three handlers:
\* the message the handler appends to the history
ChatReply(a) ==
    IF a.raised
    THEN IF a.exc.class = "ValidationError" THEN WarningMessage(a.exc)
                                            ELSE ErrorMessage(a.exc)
    ELSE IF FirstMissing(a.result) = "none"
         THEN AnswerMessage(a.result)
         ELSE \* result[key] raises KeyError inside the try block
              ErrorMessage(Exc("KeyError", "render", <<FirstMissing(a.result)>>, "none"))

InitS ==
    /\ ValidatorIdle
    /\ OrchestratorIdle
    /\ TransformerIdle
    /\ ExtractorIdle
    /\ s_front \in {"api", "cli_loop", "streamlit"}
    \* USE_MOCK_DB and --demo are set outside; st.toggle(..., value=True)
    /\ s_demo_mode \in (IF s_front = "streamlit" THEN {TRUE} ELSE BOOLEAN)
    /\ s_messages = <<>>
    /\ s_runs = <<>>
    /\ s_ask = NoAsk
    /\ s_before = 0

SFrame == UNCHANGED <<vvars, qvars, cvars, ivars, xvars, tvars>>

\* The flags one question was served under
Run(a, flag) == [dialect |-> a.dialect, backend |-> a.backend, flag |-> flag]

\* The user flips the "Demo mode" toggle of the sidebar: the script runs again
\* with the new value and no question
Toggle ==
    /\ s_front = "streamlit"
    /\ s_demo_mode' = ~s_demo_mode
    /\ UNCHANGED <<s_front, s_messages, s_runs, s_ask, s_before>>
    /\ SFrame

\* `if user_input:` of streamlit_app.py: the question is appended to the
\* history, ask() runs under the toggle's value, and the handler appends the
\* answer or the message of the exception it caught
ChatSubmit ==
    /\ s_front = "streamlit"
    /\ Len(s_runs) < MaxChat
    /\ \E a \in RunPipeline(s_front, s_demo_mode) :
         /\ s_ask' = a
         /\ s_messages' = s_messages \o <<UserMessage, ChatReply(a)>>
         /\ s_runs' = Append(s_runs, Run(a, s_demo_mode))
    /\ s_before' = Len(s_messages)
    /\ UNCHANGED <<s_front, s_demo_mode>>
    /\ SFrame

\* The "Clear chat" button: st.session_state["messages"] = []
ClearChat ==
    /\ s_front = "streamlit"
    /\ s_messages # <<>>
    /\ s_messages' = <<>>
    /\ s_ask' = NoAsk
    /\ s_before' = 0
    /\ UNCHANGED <<s_front, s_demo_mode, s_runs>>
    /\ SFrame

\* POST /query of the API service, or one line of the interactive CLI: the
\* question goes through the pipeline under the flag the process started with
Serve ==
    /\ s_front \in {"api", "cli_loop"}
    /\ Len(s_runs) < MaxChat
    /\ \E a \in RunPipeline(s_front, s_demo_mode) :
         /\ s_ask' = a
         /\ s_runs' = Append(s_runs, Run(a, s_demo_mode))
    /\ UNCHANGED <<s_front, s_demo_mode, s_messages, s_before>>
    /\ SFrame

NextS ==
    \/ Toggle
    \/ ChatSubmit
    \/ ClearChat
    \/ Serve

SpecS == InitS /\ [][NextS]_vars

\* ------------------------------------------------------------------------
\* SpecE: BaseExtractor (tech-health/etl-pipelines): one extractor object and
\* the calls of extract made on it
\* ------------------------------------------------------------------------
MaxRecords == 2       \* records the source returns to one run

\* bool(v) of a watermark value: None and 0 are false
Truthy(v) == v > 0

\* A record of the source: whether it has the watermark column, and its value
Rec(has_col, value) == [has_col |-> has_col, value |-> value]
SourceRecords == {Rec(FALSE, None)} \cup {Rec(TRUE, v) : v \in {None, 1, 2}}
SourceLists == UNION {[1..n -> SourceRecords] : n \in 0..MaxRecords}

\* config.batch_size
BatchSizes == {1, 2}

\* Which call of _fetch_batch fails, and on how many attempts in a row: on
\* the first one only, or on every one
FetchPlans ==
    {[call |-> k, failing |-> f] : k \in 1..(MaxRecords + 1), f \in {1, DefaultMaxRetries}}

\* _fetch_batch(offset, limit, since) of a source that holds `records` for this run
FetchBatch(records, offset, limit) ==
    SubSeq(records, offset + 1, Min(offset + limit, Len(records)))

\* _fetch_with_retry: the batch of the first attempt that does not raise, or
\* RuntimeError after max_retries failed attempts
FetchWithRetry(records, offset, limit, failing, max_retries) ==
    IF failing >= max_retries
    THEN [raised |-> TRUE, batch |-> <<>>]
    ELSE [raised |-> FALSE, batch |-> FetchBatch(records, offset, limit)]

\* _extract_with_retry: the batches the generator yields before it ends or
\* before a fetch raises
RECURSIVE ExtractWithRetry(_, _, _, _, _)
ExtractWithRetry(records, config, plan, offset, call) ==
    LET r == FetchWithRetry(records, offset, config.batch_size,
                            IF plan.call = call THEN plan.failing ELSE 0,
                            config.max_retries)
    IN  IF r.raised THEN [raised |-> TRUE, batches |-> <<>>]
        ELSE IF r.batch = <<>> THEN [raised |-> FALSE, batches |-> <<>>]
        ELSE IF Len(r.batch) < config.batch_size
             THEN [raised |-> FALSE, batches |-> <<r.batch>>]
        ELSE LET rest == ExtractWithRetry(records, config, plan,
                                          offset + Len(r.batch), call + 1)
             IN  [raised |-> rest.raised, batches |-> <<r.batch>> \o rest.batches]

\* all_records.extend(batch), batch after batch
RECURSIVE AllRecords(_)
AllRecords(batches) ==
    IF batches = <<>> THEN <<>> ELSE batches[1] \o AllRecords(Tail(batches))

\* new_watermark after the loop over the batches, starting from w
RECURSIVE NewWatermark(_, _)
NewWatermark(batches, w) ==
    IF batches = <<>> THEN w
    ELSE LET batch == batches[1]
         IN  NewWatermark(Tail(batches),
                          IF batch # <<>> /\ batch[Len(batch)].has_col
                          THEN batch[Len(batch)].value
                          ELSE w)

\* since or (self._watermark if self.config.incremental else None)
EffectiveSince(since, watermark, config) ==
    IF Truthy(since) THEN since
    ELSE IF config.incremental THEN watermark ELSE None

\* Mutant: the watermark is advanced whatever the run's errors
StoredWatermarkIgnoringErrors(watermark, errors, new_watermark) ==
    IF Truthy(new_watermark) THEN new_watermark ELSE watermark

\* if not result.has_errors and new_watermark: self._watermark = new_watermark
StoredWatermark(watermark, errors, new_watermark) ==
    IF errors = 0 /\ Truthy(new_watermark) THEN new_watermark ELSE watermark

\* The body of extract: try (connect, loop over the batches), except
\* Exception (one message appended to errors), finally (_disconnect)
ExtractBody(watermark, config, since, connect_ok, records, plan) ==
    LET effective_since == EffectiveSince(since, watermark, config)
        g == IF connect_ok THEN ExtractWithRetry(records, config, plan, 0, 1)
                           ELSE [raised |-> TRUE, batches |-> <<>>]
        all_records == AllRecords(g.batches)
    IN  [called |-> TRUE, before |-> watermark, since |-> since,
         connect_failed |-> ~connect_ok,
         fetch_failed |-> connect_ok /\ g.raised,
         last |-> IF all_records = <<>> THEN Rec(FALSE, None)
                  ELSE all_records[Len(all_records)],
         errors |-> IF g.raised THEN 1 ELSE 0,
         watermark_value |-> NewWatermark(g.batches, effective_since),
         row_count |-> Len(all_records),
         disconnects |-> 1,
         raised |-> FALSE]

InitE ==
    /\ ValidatorIdle
    /\ OrchestratorIdle
    /\ TransformerIdle
    /\ ChatIdle
    /\ x_config \in [incremental : BOOLEAN, batch_size : BatchSizes,
                      max_retries : {DefaultMaxRetries}]
    /\ x_watermark = None
    /\ x_run = NoRun

EFrame == UNCHANGED <<vvars, qvars, cvars, ivars, svars, tvars>>

\* extractor.extract(since)
Extract(since) ==
    /\ \/ x_run' = ExtractBody(x_watermark, x_config, since, FALSE, <<>>, [call |-> 0, failing |-> 0])
       \/ \E records \in SourceLists, plan \in FetchPlans :
            x_run' = ExtractBody(x_watermark, x_config, since, TRUE, records, plan)
    /\ x_watermark' = StoredWatermark(x_watermark, x_run'.errors, x_run'.watermark_value)
    /\ UNCHANGED x_config
    /\ EFrame

NextE == \E since \in {None, 1} : Extract(since)

SpecE == InitE /\ [][NextE]_vars

\* ------------------------------------------------------------------------
\* SpecT: DataTransformer.transform (tech-health/etl-pipelines) applied to the
\* frames of InputFrames. A frame is its index (the row labels), its column
\* names and, per column, the values of the rows; a Series is an index and
\* the values at its labels
\* ------------------------------------------------------------------------
MaxRows == 2          \* rows of an input frame

SchemaField(name, dtype, nullable, rename, default) ==
    [name |-> name, dtype |-> dtype, nullable |-> nullable, rename |-> rename,
     default |-> default]

\* ORDERS_SCHEMA of the tests, one field of each shape: renamed and not
\* nullable, nullable without a default, not nullable with a default
OrdersSchema ==
    << SchemaField("id", "integer", FALSE, "order_id", "None"),
       SchemaField("totalAmount", "float", TRUE, "total_amount", "None"),
       SchemaField("currency", "string", FALSE, "currency", "USD") >>

\* pd.RangeIndex(n), the index of a Series made from a list
RangeIndex(n) == [i \in 1..n |-> i - 1]

\* The elements of a set of numbers, ascending
SortedLabels(S) ==
    [i \in 1..Cardinality(S) |-> CHOOSE x \in S : Cardinality({y \in S : y < x}) = i - 1]

Series(index, values) == [index |-> index, values |-> values]

\* field_name in df.columns
HasColumn(df, name) == \E k \in DOMAIN df.columns : df.columns[k] = name

\* df[field_name]
ColumnOf(df, name) ==
    Series(df.index, df.data[CHOOSE k \in DOMAIN df.columns : df.columns[k] = name])

\* pd.Series([value] * n, name=field_name)
ConstantSeries(value, n) == Series(RangeIndex(n), [i \in 1..n |-> value])

\* _cast_series: with errors="coerce" a value the target type cannot hold
\* becomes null; the index of the series stays
CastSeries(series, field) ==
    IF field.dtype \in {"timestamp", "date", "integer", "float"}
    THEN Series(series.index,
                [i \in DOMAIN series.values |->
                    IF series.values[i] \in {"text", "NA"} THEN "NA" ELSE series.values[i]])
    ELSE series

\* The series _coerce_columns makes for a field of the schema
FieldSeries(df, field) ==
    CastSeries(IF HasColumn(df, field.name) THEN ColumnOf(df, field.name)
               ELSE IF field.default # "None"
                    THEN ConstantSeries(field.default, Len(df.index))
                    ELSE ConstantSeries("NA", Len(df.index)),
               field)

\* The value of a series at a row label, null where the series has no such label
ValueAt(series, label) ==
    IF \E i \in DOMAIN series.index : series.index[i] = label
    THEN series.values[CHOOSE i \in DOMAIN series.index : series.index[i] = label]
    ELSE "NA"

\* pd.DataFrame(dict of Series), no index given: the index of the frame is the
\* union of the indexes of the series (sorted unless they are all equal),
\* and each series is aligned to it
DataFrame(names, series) ==
    LET index == IF series = <<>> THEN <<>>
                 ELSE IF \A k \in DOMAIN series : series[k].index = series[1].index
                      THEN series[1].index
                      ELSE SortedLabels(UNION {Range(series[k].index) : k \in DOMAIN series})
    IN  [index |-> index,
         columns |-> names,
         data |-> [k \in DOMAIN series |->
                      [i \in DOMAIN index |-> ValueAt(series[k], index[i])]]]

\* _coerce_columns
CoerceColumns(df, schema) ==
    DataFrame([k \in DOMAIN schema |-> schema[k].rename],
              [k \in DOMAIN schema |-> FieldSeries(df, schema[k])])

\* _add_metadata: two columns holding one value in every row
AddMetadata(df) ==
    [index |-> df.index,
     columns |-> df.columns \o <<"_loaded_at", "_source">>,
     data |-> df.data \o <<[i \in DOMAIN df.index |-> "now"],
                           [i \in DOMAIN df.index |-> "source_name"]>>]

\* _validate_nulls: the number of "NOT NULL violation" errors logged
ValidateNulls(df, schema) ==
    Cardinality({k \in DOMAIN schema :
                    /\ ~schema[k].nullable
                    /\ HasColumn(df, schema[k].rename)
                    /\ \E i \in DOMAIN df.index :
                          ColumnOf(df, schema[k].rename).values[i] = "NA"})

\* df.empty: no rows or no columns
IsEmpty(df) == df.index = <<>> \/ df.columns = <<>>

\* transform
TransformFrame(df, schema) ==
    IF IsEmpty(df)
    THEN [done |-> TRUE, frame |-> df, null_errors |-> 0]
    ELSE LET out == AddMetadata(CoerceColumns(df, schema))
         IN  [done |-> TRUE, frame |-> out, null_errors |-> ValidateNulls(out, schema)]

\* Row labels of the input frames: the default 0..n-1 and labels left by a
\* filter or a concatenation upstream
Indexes ==
    UNION {{ix \in [1..n -> 0..MaxRows] : \A a, b \in 1..n : a # b => ix[a] # ix[b]} :
           n \in 0..MaxRows}

\* The columns an input frame can have, in this order
InputColumns == <<"id", "totalAmount", "currency", "legacy">>

\* The subsequence of xs at the positions of keep
RECURSIVE Pick(_, _, _)
Pick(xs, keep, k) ==
    IF k > Len(xs) THEN <<>>
    ELSE (IF k \in keep THEN <<xs[k]>> ELSE <<>>) \o Pick(xs, keep, k + 1)

\* Frames handed to transform: every row holds the same kind of value in a
\* column: a number, or a text no number can be read from
InputFrames ==
    {[index |-> ix,
      columns |-> Pick(InputColumns, keep, 1),
      data |-> [k \in 1..Cardinality(keep) |-> [i \in DOMAIN ix |-> v]]] :
     ix \in Indexes, keep \in SUBSET DOMAIN InputColumns, v \in {"1", "text"}}

InitT ==
    /\ ValidatorIdle
    /\ OrchestratorIdle
    /\ ChatIdle
    /\ ExtractorIdle
    /\ t_df \in InputFrames
    /\ t_out = NoTransform

\* result = transformer.transform(df)
Transform ==
    /\ ~t_out.done
    /\ t_out' = TransformFrame(t_df, OrdersSchema)
    /\ UNCHANGED <<t_df, vvars, qvars, cvars, ivars, svars, xvars>>

NextT == Transform

SpecT == InitT /\ [][NextT]_vars

\* ------------------------------------------------------------------------
\* Vocabulary of the properties, defined on the text itself and not by the
\* validator's own operations
\* ------------------------------------------------------------------------
KW_CREATE == <<"C", "R", "E", "A", "T", "E">>
KW_DROP == <<"D", "R", "O", "P">>
DropTableX == <<"D", "R", "O", "P", " ", "T", "A", "B", "L", "E", " ", "x">>

\* The validator of the running orchestrator
OrchestratorValidator(sql) ==
    IF variant = "api"
    THEN IF sql \in GenOutputs THEN ApiOutcomes[sql] ELSE ValidateSql(sql, DefaultMaxRows)
    ELSE IF sql \in GenOutputs THEN CliOutcomes[sql] ELSE CliValidateSql(sql)

AppliedBlocklist == IF v_impl = "api" THEN BLOCKED_KEYWORDS ELSE BLOCKED

\* Positions <<first, last>> of the maximal runs of characters of s in set cs
RECURSIVE RunEnd(_, _, _)
RunEnd(s, cs, a) ==
    IF a = Len(s) \/ s[a + 1] \notin cs THEN a ELSE RunEnd(s, cs, a + 1)

Runs(s, cs) ==
    {<<a, RunEnd(s, cs, a)>> :
        a \in {i \in DOMAIN s : s[i] \in cs /\ (i = 1 \/ s[i - 1] \notin cs)}}

At(s, r) == SubSeq(s, r[1], r[2])

\* Words: maximal runs of letters, digits and underscores
WordRuns(s) == Runs(s, WordChars)

\* Whitespace-delimited tokens
NonSpaceChars(s) == {c \in Range(s) : ~IsSpace(c)}
TokenRuns(s) == Runs(s, NonSpaceChars(s))

\* The first whitespace-delimited token of a text that has one
FirstToken(s) ==
    At(s, CHOOSE r \in TokenRuns(s) : \A q \in TokenRuns(s) : r[1] <= q[1])

\* Only whitespace between positions a and b (exclusive), and at least one
OnlySpaceBetween(s, a, b) == b > a + 1 /\ \A i \in (a + 1)..(b - 1) : IsSpace(s[i])

\* kw (one word, or two words separated by a space) stands in s as a token of
\* its own: whole words, the two words apart by whitespace only
StandsAlone(kw, s) ==
    LET folded == Upper(s)
        parts == Split(kw)
    IN  IF Len(parts) = 1
        THEN \E r \in WordRuns(folded) : At(folded, r) = kw
        ELSE \E r \in WordRuns(folded), q \in WordRuns(folded) :
                /\ At(folded, r) = parts[1]
                /\ At(folded, q) = parts[2]
                /\ OnlySpaceBetween(folded, r[2], q[1])

\* A token of identifier characters (letters, digits, _ and $) equal to kw
StandsAloneAsIdentifier(kw, s) ==
    LET folded == Upper(s)
        parts == Split(kw)
    IN  IF Len(parts) = 1
        THEN \E r \in Runs(folded, WordChars \cup {"$"}) : At(folded, r) = kw
        ELSE StandsAlone(kw, s)

\* SYSTEM$ directly followed by a word character and not preceded by one
SystemPrefix(s) ==
    LET folded == Upper(s)
    IN  \E r \in WordRuns(folded), q \in WordRuns(folded) :
            /\ At(folded, r) \o <<"$">> = SYSTEM_DOLLAR
            /\ q[1] = r[2] + 2
            /\ folded[r[2] + 1] = "$"

\* Decimal value of a run of digits
RECURSIVE ParseInt(_)
ParseInt(d) ==
    IF d = <<>> THEN 0
    ELSE 10 * ParseInt(SubSeq(d, 1, Len(d) - 1))
         + ((CHOOSE i \in DOMAIN DigitChars : DigitChars[i] = d[Len(d)]) - 1)

IsNumber(w) == w # <<>> /\ \A i \in DOMAIN w : w[i] \in Range(DigitChars)

\* The word LIMIT occurs in s as a word of its own
HasLimitToken(s) == \E r \in WordRuns(Upper(s)) : At(Upper(s), r) = LIMIT

\* s has a clause LIMIT n with n <= m
HasRowLimit(s, m) ==
    LET folded == Upper(s)
    IN  \E r \in WordRuns(folded), q \in WordRuns(folded) :
            /\ At(folded, r) = LIMIT
            /\ OnlySpaceBetween(folded, r[2], q[1])
            /\ IsNumber(At(folded, q))
            /\ ParseInt(At(folded, q)) <= m

\* Nothing but whitespace and semicolons after the first semicolon
SingleStatement(s) ==
    \A i \in DOMAIN s : s[i] = ";" =>
        \A j \in (i + 1)..Len(s) : s[j] = ";" \/ IsSpace(s[j])

\* A ValidatedQuery of the specification
ValidatedQuery(s, m, blocklist) ==
    /\ SingleStatement(s)
    /\ TokenRuns(s) # {}
    /\ Upper(FirstToken(s)) \in {SELECT, KW_WITH}
    /\ \A kw \in blocklist : ~StandsAloneAsIdentifier(kw, s)
    /\ HasRowLimit(s, m)

\* ------------------------------------------------------------------------
\* Properties
\* ------------------------------------------------------------------------
Validated == v_impl # "none"
PassedAllowlist == Validated /\ v_out.kind \in {"ok", "blocked"}
CallsOf(step) == {i \in DOMAIN calls : calls[i].step = step}
ValidationFailed == exc.class \in {"SQLValidationError", "ValidationError"}

\* C1: in `query` and in `ask`, the executor is only ever invoked with a
\* string that validate_sql returned for the raw SQL of that question, and
\* once validate_sql raised neither the executor nor the formatter is invoked.
C1_ExecutorGetsValidatedSql ==
    /\ \A i \in CallsOf("execute") :
         \E j \in CallsOf("validate") :
            /\ j < i
            /\ Outcome("ok", calls[i].arg) \in OrchestratorValidator(calls[j].arg)
    /\ ValidationFailed => CallsOf("execute") \cup CallsOf("format") = {}

C1_Witness ==
    /\ pc = "done"
    /\ \E i \in CallsOf("execute") : calls[i].arg # raw_sql
    /\ CallsOf("format") # {}

\* C2: every string validate_sql returns is a ValidatedQuery: one statement,
\* starting with SELECT or WITH, no blocked keyword as a token of its own,
\* and a LIMIT clause of at most max_rows rows.
C2_ReturnsValidatedQuery ==
    (Validated /\ v_out.kind = "ok") =>
        ValidatedQuery(v_out.text, v_max_rows, AppliedBlocklist)

\* C3: a non-empty, non-sentinel text whose first whitespace-delimited token,
\* case-folded, is not SELECT or WITH fails with the allowlist error quoting
\* that token; one whose first token is SELECT or WITH passes the allowlist
\* check and is decided by the blocklist check.
C3_Allowlist ==
    (Validated /\ TokenRuns(v_sql) # {} /\ Split(Upper(v_sql)) # <<CANNOT_ANSWER>>) =>
        LET token == Upper(FirstToken(v_sql))
        IN  IF token \in {SELECT, KW_WITH}
            THEN v_out.kind \in {"ok", "blocked"}
            ELSE v_out = Outcome("allowlist", token)

C3_Witness ==
    /\ Validated
    /\ v_out.kind = "allowlist"
    /\ IsSpace(v_sql[1])
    /\ v_out.text # FirstToken(v_sql)

C5_LimitIdempotence ==
    (Validated /\ v_out.kind = "ok") =>
        /\ HasLimitToken(v_sql) => v_out.text = Normalise(v_sql)
        /\ ~HasLimitToken(v_sql) =>
              /\ \E body \in {SubSeq(v_out.text, 1, n) : n \in 0..Len(v_out.text)} :
                    /\ v_out.text = body \o <<" ">> \o LIMIT \o <<" ">> \o Str(v_max_rows)
                    /\ body # <<>>
                    /\ body[Len(body)] # ";"
                    /\ ~HasLimitToken(body)
        /\ v_out2 # NoOutcome => v_out2 = v_out

\* C6: a text that is the CANNOT_ANSWER token, in any case and with any
\* surrounding whitespace, fails with the rephrase-guidance error, never with
\* the empty, allowlist or blocklist error.
C6_Sentinel ==
    (Validated /\ Len(Split(v_sql)) = 1 /\ Upper(Split(v_sql)[1]) = CANNOT_ANSWER) =>
        v_out = Outcome("sentinel", <<>>)

C6_Witness ==
    /\ Validated
    /\ v_out.kind = "sentinel"
    /\ v_sql # CANNOT_ANSWER
    /\ IsSpace(v_sql[1])

\* C7 as stated: `DROP TABLE x` is rejected with the blocked-keyword error
\* naming DROP.
C7_DropIsBlockedKeyword ==
    (Validated /\ v_sql = DropTableX) => v_out = Outcome("blocked", KW_DROP)

\* C7 amended: `DROP TABLE x` is rejected with the allowlist error quoting
\* DROP as the leading token; the blocklist check is not reached.
C7_DropFailsAllowlist ==
    (Validated /\ v_sql = DropTableX) => v_out = Outcome("allowlist", KW_DROP)

C7_Witness ==
    /\ Validated
    /\ v_sql = DropTableX
    /\ v_out.kind # "ok"

\* C8: for every question it accepted the orchestrator calls write_log
\* exactly once, on success and on every failure, with the fields populated
\* so far and the error text. Stated for the handler `query`, the one
\* orchestrator that has a log (`ask` of the CLI never writes a record).
C8_OneLogRecordPerQuestion ==
    (variant = "api" /\ pc = "done" /\ response.status # "503") =>
        /\ logWrites = 1
        /\ log.error = exc

\* C9: write_log never raises, whatever the sink does, and the caller of
\* `query` gets the success response, the 422 or the 500 that the pipeline
\* produced whether or not the row was written.
C9_LogFailureNotFatal ==
    (variant = "api" /\ pc = "done" /\ logWrites = 1) =>
        /\ exc = NoExc =>
              response = [status |-> "200", detail |-> NoExc, sql |-> safe_sql,
                          answer |-> answer, row_count |-> results,
                          tables |-> tables_used]
        /\ exc.class = "SQLValidationError" =>
              response.status = "422" /\ response.detail = exc
        /\ exc.class = "RuntimeError" =>
              response.status = "500" /\ response.detail = exc

C9_Witness ==
    /\ variant = "api"
    /\ pc = "done"
    /\ warnings > 0
    /\ Len(sink) = 0
    /\ response.status = "422"

\* C10: the API answers a validation failure with 422 and the validator's
\* message, and a failure of the backend with 500; the backend's exception
\* always reaches the handler as a RuntimeError.
C10_ErrorTaxonomy ==
    (variant = "api" /\ pc = "done" /\ calls # <<>>) =>
        LET last == calls[Len(calls)]
        IN  /\ (last.step = "validate"
                  /\ \A o \in OrchestratorValidator(last.arg) : o.kind # "ok") =>
                  /\ response.status = "422"
                  /\ Outcome(response.detail.kind, response.detail.text)
                         \in OrchestratorValidator(last.arg)
            /\ last.step = "execute" =>
                  /\ response.status = "500"
                  /\ response.detail.class = "RuntimeError"
                  /\ response.detail.cause \in BackendErrors

C10_Witness ==
    /\ variant = "api"
    /\ pc = "done"
    /\ calls # <<>>
    /\ calls[Len(calls)].step = "execute"
    /\ response.status = "500"

\* C11: the body of the 500 response to an execution failure is the same
\* whatever text the backend's exception carried: the backend's own error
\* text is not in it.
C11_GenericExecutionError ==
    (variant = "api" /\ response.status = "500" /\ response.detail.kind = "execute") =>
        \A c \in BackendErrors :
            response = HttpError("500", Exc("RuntimeError", "execute", <<>>, c))

\* C12: in every log record written, an error comes with an empty answer and
\* a non-empty answer comes with no error; the response is the answer or the
\* error accordingly.
AnswerXorError(l) ==
    /\ l.error # NoExc => l.answer = ""
    /\ l.answer # "" => l.error = NoExc

C12_AnswerXorError ==
    /\ \A i \in DOMAIN sink : AnswerXorError(sink[i])
    /\ logWrites > 0 =>
          /\ AnswerXorError(log)
          /\ log.error # NoExc => response.answer = "none" /\ response.detail = log.error
          /\ log.answer # "" => response.answer = log.answer /\ response.detail = NoExc

C12_Witness ==
    /\ logWrites > 0
    /\ log.error # NoExc
    /\ log.generated_sql # <<>>
    /\ log.row_count > 0
    /\ sink = <<log>>

\* C13: the steps called for a question are a prefix of retrieve, generate,
\* validate, execute, format, each called at most once, and the step that
\* failed is the last one called.
StepsCalled == [i \in DOMAIN calls |-> calls[i].step]
FailedStep == IF ValidationFailed THEN "validate" ELSE exc.kind

C13_StepsArePrefix ==
    /\ Len(calls) <= Len(Pipeline)
    /\ StepsCalled = SubSeq(Pipeline, 1, Len(calls))
    /\ exc # NoExc => calls # <<>> /\ calls[Len(calls)].step = FailedStep

C13_Witness ==
    /\ pc = "done"
    /\ exc # NoExc
    /\ StepsCalled = SubSeq(Pipeline, 1, 4)

\* C14: a `query` or `schema` request handled while the index is not loaded
\* is answered 503 at once: no retrieval, generation, validation, execution
\* or formatting call is made for it, no model call, no log write, and the
\* handler has returned.
C14_IndexUnreadyFailsFast ==
    /\ (variant = "api" /\ ~schema_collection /\ served > 0) => response.status = "503"
    /\ (~schema_collection /\ schema_response # NoResponse) => schema_response.status = "503"
    /\ response.status = "503" =>
          /\ pc = "done"
          /\ calls = <<>>
          /\ llm_calls = 0
          /\ logWrites = 0
          /\ open_conns = 0

C14_Witness ==
    /\ ~schema_collection
    /\ response.status = "503"
    /\ schema_response.status = "503"
    /\ served > 0

\* C15: when execution returned zero rows, format_answer returns the fixed
\* no-data message without calling the model, so the question made exactly
\* one model call, the SQL generation.
C15_EmptyResultNoModelCall ==
    (CallsOf("format") # {} /\ results = 0) =>
        /\ exc = NoExc
        /\ answer = "no results message"
        /\ llm_calls = 1

C15_Witness ==
    /\ pc = "done"
    /\ CallsOf("format") # {}
    /\ results = 0
    /\ response.answer = "no results message"

\* C16: on every backend the executor returns at most MAX_ROWS rows,
\* whatever LIMIT the SQL carries.
MaxRowsOf(v) == IF v = "api" THEN ApiMaxRows ELSE CliMaxRows

C16_ExecutorCapsRows ==
    CallsOf("execute") # {} => results <= MaxRowsOf(variant)

\* C17: every connection the executor and the log writer open is closed when
\* the call returns or raises: between two pipeline steps no connection is
\* open.
C17_ConnectionsReleased == open_conns = 0

C17_Witness ==
    /\ pc = "done"
    /\ exc.cause = "sql rejected"
    /\ warnings > 0
    /\ open_conns = 0

\* C18: while a network call of one request hangs, every other request the
\* service has received and not yet answered can take its next step.
C18_HangBlocksOnlyItsQuestion ==
    \A q \in Requests :
        (c_hung # 0 /\ c_hung # q /\ c_pc[q] \notin {"off", "client", "done"}) =>
            ENABLED Advance(q)

\* C19: a build_index call that finds the collection and is not forced
\* returns it with no embedding request, no read of the schema document and
\* the collection as it found it; any other call deletes what it found and
\* creates a collection that, when the call returns, holds one chunk for
\* every table of the document as it is now, and nothing else.
HoldsEveryChunk(coll, doc) ==
    /\ coll.exists
    /\ Len(coll.chunks) = Len(doc.tables)
    /\ \A k \in DOMAIN doc.tables :
          \E j \in DOMAIN coll.chunks :
              /\ coll.chunks[j].id = doc.tables[k].name
              /\ \A c \in DOMAIN doc.tables[k].columns :
                    Contains(coll.chunks[j].text, doc.tables[k].columns[c].name)

C19_BuildIndexPaths ==
    i_result.path # "none" =>
        IF i_result.found.exists /\ ~i_result.force
        THEN /\ i_result.path = "load"
             /\ ~i_result.raised
             /\ i_embed_calls = 0
             /\ i_doc_reads = 0
             /\ i_coll = i_result.found
        ELSE /\ i_result.path = "build"
             /\ i_coll.exists
             /\ \A j \in DOMAIN i_coll.chunks :
                   \E k \in DOMAIN i_result.doc.tables :
                       /\ i_coll.chunks[j].id = i_result.doc.tables[k].name
                       /\ \A c \in DOMAIN i_result.doc.tables[k].columns :
                             Contains(i_coll.chunks[j].text,
                                      i_result.doc.tables[k].columns[c].name)
             /\ ~i_result.raised => HoldsEveryChunk(i_coll, i_result.doc)

C19_Witness ==
    /\ i_result.path = "build"
    /\ i_result.force
    /\ ~i_result.raised
    /\ Len(i_result.found.chunks) = 2
    /\ Len(i_coll.chunks) = 1
    /\ i_coll.chunks[1].id = i_result.found.chunks[1].id
    /\ i_coll.chunks[1].text # i_result.found.chunks[1].text

\* C20: for a document of K tables _load_schema returns K chunks, the k-th
\* with the name of the k-th table as its id and every column name of that
\* table in its text.
C20_OneChunkPerTable ==
    i_chunks.loaded =>
        /\ Len(i_chunks.docs) = Len(i_result.doc.tables)
        /\ \A k \in DOMAIN i_result.doc.tables :
              /\ i_chunks.docs[k].id = i_result.doc.tables[k].name
              /\ \A c \in DOMAIN i_result.doc.tables[k].columns :
                    Contains(i_chunks.docs[k].text, i_result.doc.tables[k].columns[c].name)

C20_Witness ==
    /\ i_chunks.loaded
    /\ Len(i_chunks.docs) = 2
    /\ Len(i_result.doc.tables[1].columns) = 2
    /\ i_result.doc.tables[2].columns = <<>>

\* C21: retrieving n neighbours from an index that holds fewer than n chunks,
\* an empty index included, requests min(n, chunk count) neighbours, returns at
\* most that many chunks and raises no error (a failure of the embedding
\* request aside)
C21_RetrievalBound ==
    (i_retrieval.n > 0 /\ i_retrieval.count < i_retrieval.n)
        => /\ i_retrieval.requested = Min(i_retrieval.n, i_retrieval.count)
           /\ Len(i_retrieval.docs) <= i_retrieval.requested
           /\ (i_retrieval.raised => i_retrieval.cause = "embedding")

\* C22: two calls of validate_sql with the same (sql, max_rows), in the same
\* or in different process runs, have the same outcome: the same returned
\* string, or a failure with the same reason, the blocked keyword it names
\* included
C22_Deterministic ==
    v_out3 # NoOutcome => v_out3 = v_out

\* C23: run with a question argument, the CLI ends with a nonzero exit code
\* whenever validation of the generated SQL failed, and with exit code zero
\* only when the question was answered: every step of the pipeline was
\* called, none raised, and the answer of the formatter was printed
C23_ExitCode ==
    (variant = "cli" /\ pc = "done") =>
        /\ ValidationFailed => response.exit # 0
        /\ response.exit = 0 =>
              /\ exc = NoExc
              /\ StepsCalled = Pipeline
              /\ response.answer = answer
              /\ answer # "none"

\* A question argument whose generated SQL failed validation
C23_Witness ==
    /\ variant = "cli"
    /\ pc = "done"
    /\ ValidationFailed
    /\ response.exit = 1

\* C24: when the generated SQL of a question fails validation, the log record
\* handed to write_log (and the row the sink took) has the validator's message
\* as error, row_count = 0, an empty answer, and generated_sql equal to the
\* raw model output that was rejected
RejectedByValidator ==
    /\ variant = "api"
    /\ pc = "done"
    /\ calls # <<>>
    /\ calls[Len(calls)].step = "validate"
    /\ exc # NoExc

C24_ValidationFailureLogged ==
    RejectedByValidator =>
        /\ logWrites = 1
        /\ Outcome(exc.kind, exc.text) \in OrchestratorValidator(raw_sql)
        /\ log.error = exc
        /\ log.row_count = 0
        /\ log.answer = ""
        /\ log.generated_sql = raw_sql
        /\ log.generated_sql = calls[Len(calls)].arg
        /\ warnings = 0 => (sink # <<>> /\ sink[Len(sink)] = log)

\* A rejected, non-empty model output whose record reached the sink
C24_Witness ==
    /\ RejectedByValidator
    /\ raw_sql # <<>>
    /\ sink # <<>>
    /\ sink[Len(sink)].generated_sql = raw_sql
    /\ sink[Len(sink)].error.class = "SQLValidationError"

\* C25: the tables-used list of a question is parallel to the chunks that
\* retrieval returned: one entry per chunk, in retrieval order, each the table
\* name of its chunk, and empty exactly when no chunk was retrieved
C25_TablesParallelToChunks ==
    (i_retrieval.n > 0 /\ ~i_retrieval.raised) =>
        /\ Len(i_retrieval.tables) = Len(i_retrieval.docs)
        /\ \A k \in DOMAIN i_retrieval.docs :
              i_retrieval.tables[k] = i_retrieval.docs[k].metadata.table_name
        /\ (i_retrieval.tables = <<>>) <=> (i_retrieval.docs = <<>>)

\* C27: with the schema document unchanged, every handle build_index returns
\* without raising refers to an index that holds exactly one chunk per table
\* of the document, after any sequence of build_index calls, a call with
\* force_rebuild = false after a failed build included
C27_ReturnedIndexIsComplete ==
    (i_result.path # "none" /\ ~i_result.raised /\ ~i_edited)
        => HoldsEveryChunk(i_coll, i_doc)

\* C26: backend selection is static per process: every question of one
\* process is executed on the same backend and generated for the dialect of
\* that backend
C26_BackendStatic ==
    \A i, j \in DOMAIN s_runs :
        /\ (s_runs[i].backend # "none" /\ s_runs[j].backend # "none")
              => s_runs[i].backend = s_runs[j].backend
        /\ s_runs[i].backend # "none" => s_runs[i].dialect = s_runs[i].backend

\* C26, amended: in the API service and the CLI the backend is the same for
\* every question of the process; in a Streamlit session each question is
\* executed on the backend the "Demo mode" toggle selects when the question
\* is submitted; everywhere a question is generated for the dialect of the
\* backend it is executed on
C26_BackendFollowsFlag ==
    \A i, j \in DOMAIN s_runs :
        /\ (s_front # "streamlit" /\ s_runs[i].backend # "none" /\ s_runs[j].backend # "none")
              => s_runs[i].backend = s_runs[j].backend
        /\ s_runs[i].backend # "none"
              => /\ s_runs[i].dialect = s_runs[i].backend
                 /\ s_runs[i].backend = (IF s_runs[i].flag THEN "duckdb" ELSE "snowflake")
        /\ s_front # "streamlit" => s_runs[i].flag = s_demo_mode

\* Two questions of one Streamlit session executed on different backends
C26_Witness ==
    /\ s_front = "streamlit"
    /\ Len(s_runs) = 2
    /\ s_runs[1].backend = "duckdb"
    /\ s_runs[2].backend = "snowflake"

\* C28: in the Streamlit chat handler, whenever ask() returns a result,
\* exactly one assistant message is appended to the history for the question
\* and it carries the answer, SQL, row count, latency and tables of the
\* result; an error message is appended only when ask() itself raised
ChatAppended == SubSeq(s_messages, s_before + 2, Len(s_messages))

C28_AnswerSaved ==
    (s_front = "streamlit" /\ s_ask.asked) =>
        /\ ~s_ask.raised =>
              /\ Len(ChatAppended) = 1
              /\ ChatAppended[1].role = "assistant"
              /\ ChatAppended[1].content = s_ask.result.answer
              /\ ChatAppended[1].sql = s_ask.result.sql
              /\ ChatAppended[1].row_count = s_ask.result.row_count
              /\ ChatAppended[1].latency_ms = s_ask.result.latency_ms
              /\ ChatAppended[1].tables_used = s_ask.result.tables_used
        /\ (\E k \in DOMAIN ChatAppended : ChatAppended[k].mark = "error") => s_ask.raised

\* C29: extract advances the stored watermark only on clean runs: after a run
\* in which connect or a batch fetch failed (after its retries), extract
\* returns a result with a non-empty errors list instead of raising,
\* _disconnect has been called, and the stored watermark is the one before
\* the run; after an error-free run that fetched records it equals the
\* watermark-column value of the last record fetched
LastFetched == x_run.last

FailedRunKeepsWatermark ==
    (x_run.called /\ (x_run.connect_failed \/ x_run.fetch_failed)) =>
        /\ ~x_run.raised
        /\ x_run.errors > 0
        /\ x_run.disconnects > 0
        /\ x_watermark = x_run.before

C29_WatermarkOnCleanRuns ==
    /\ FailedRunKeepsWatermark
    /\ (x_run.called /\ x_run.errors = 0 /\ x_run.row_count > 0 /\ LastFetched.has_col)
          => x_watermark = LastFetched.value

\* C29, amended: as C29, the last part for an error-free run whose last
\* fetched record has a watermark-column value that is neither None nor zero
\* (a value Python takes as true)
C29_WatermarkAmended ==
    /\ FailedRunKeepsWatermark
    /\ (x_run.called /\ x_run.errors = 0 /\ x_run.row_count > 0 /\ LastFetched.has_col
          /\ Truthy(LastFetched.value))
          => x_watermark = LastFetched.value

\* A fetch failed after a batch was fetched, on an extractor whose watermark
\* an earlier clean run had advanced
C29_Witness ==
    /\ x_run.called
    /\ x_run.fetch_failed
    /\ x_run.row_count > 0
    /\ LastFetched.has_col
    /\ LastFetched.value = 2
    /\ x_watermark = 1

\* C30: transform preserves the row count: for every non-empty input frame
\* the output has exactly as many rows as the input, also when a field of the
\* schema is absent from the input and its column is filled from the field's
\* default or with nulls
C30_RowCountPreserved ==
    (t_out.done /\ ~IsEmpty(t_df)) =>
        Len(t_out.frame.index) = Len(t_df.index)

====
